---------------------------- MODULE Spec2Model ----------------------------
(***************************************************************************)
(* Observability pipeline of mcp-probe: the per-session EventBus (ring     *)
(* buffer + synchronous pub/sub), the EventRegistry, the WebSocketHub and  *)
(* the protocol taps (wrapped transport send, HTTP middleware).            *)
(*                                                                         *)
(* Spec       : one EventBus with local listeners (emit, dispatch, clear). *)
(* SpecQuery  : one EventBus and its getEvents({since, limit}) queries.    *)
(* SpecHub    : EventRegistry + WebSocketHub fan-out to connections.       *)
(* SpecTap    : wrapped transport send + HTTP middleware on one exchange.  *)
(* SpecReg    : EventRegistry lifecycle (metadata, closeSession).          *)
(* SpecLife   : lifecycle signals and events broadcast by the hub.         *)
(* SpecClient : inbound dashboard messages (backfill, malformed input).    *)
(* SpecTask   : ObservableTaskStore calls, interleaved at their awaits.    *)
(* SpecMw     : the HTTP middleware on one exchange, over the registry.     *)
(* SpecSub    : one EventBus whose listeners are added and removed.         *)
(* SpecDir    : EventRegistry lookups (getOrCreateBus, getBus) and closes.  *)
(* SpecDash   : the dashboard's event list fed by one hub connection.       *)
(* SpecCancel : the cancellable_task tool against a tasks/cancel.           *)
(* SpecApp    : the /mcp routes and the session manager behind the          *)
(*              middleware, one exchange after the other.                   *)
(***************************************************************************)
EXTENDS Integers, Sequences, FiniteSets, TLC

VARIABLES
    \* ---- EventBus (session-manager.ts:509-594) ----
    maxEvents,      \* EventBus.maxEvents, fixed at construction
    events,         \* EventBus.events, the ring buffer
    listeners,      \* EventEmitter listener array for 'event', in registration order
    now,            \* the value Date.now() returns
    nextSeq,        \* ghost: number of events stamped so far + 1 (identity of the next event)
    emitted,        \* ghost: every event appended since construction or the last clear()
    trace,          \* ghost: every listener invocation, [l, ev, buf], in the order they
                    \* happened, with the buffer as it was when the listener was invoked
    lastEmit,       \* ghost: the last producer emit call: whether it threw, the listener
                    \* array it saw, Len(trace) before it and the buffer after it
    lastQuery,      \* ghost: the last getEvents call, its options, the buffer and the
                    \* result; whether the returned array is the buffer's own array
                    \* object, and what the caller's reference shows now
    \* ---- EventRegistry (part_011:292-387) and WebSocketHub (part_014:357-511) ----
    heap,           \* every EventBus the registry has constructed: [sessionId, events]
    buses,          \* EventRegistry.buses: session id -> index into heap, 0 when absent
    clients,        \* WebSocketHub.clients: the connections in the table
    subs,           \* ClientState.subscriptions of each connection
    ready,          \* ws.readyState of each connection's socket
    outbox,         \* per connection, the messages handed to ws.send, in order
    hubLog,         \* ghost: every emit on a registry bus, [sessionId, ev], in order
    metadata,       \* EventRegistry.metadata: session id -> SessionMetadata, NoMeta when absent
    sigLog,         \* ghost: every 'session:created' / 'session:closed' signal the registry
                    \* fired, with what a registry listener saw of getBus during it
    sendLog,        \* ghost: per connection, the messages the last hub handler passed to
                    \* WebSocketHub.send (delivered or not)
    lastMsg,        \* ghost: the last inbound ws 'message' handled: connection and data
    lastClose,      \* ghost: the last closeSession call and what it returned
    \* ---- taps: observable-transport.ts:22-50, middleware part_013:60-203 ----
    http,           \* the in-flight HTTP exchange the middleware wrapped (res.write/res.end)
    resOut,         \* ghost: the chunks the last handler handed to the original res.write
    wire,           \* ghost: the calls [msg, opts] the last handler made of the original
                    \* transport.send
    nextOcc,        \* ghost: identity of the next inbound request or outbound message
    lastSend,       \* ghost: the last call of the wrapped transport.send, how it ended
                    \* and the events its interceptor part emitted
    \* ---- task-store decorator: observable-task-store.ts:14-99 ----
    tasks,          \* the wrapped TaskStore: task id -> status, NoTask when absent
    calls,          \* the decorator calls made so far: arguments, position in the async
                    \* method, what the awaited inner calls returned
    \* ---- HTTP middleware over the registry: part_013:60-203 ----
    exch,           \* the closure of the exchange the middleware wrapped: sessionId,
                    \* deferredRequestEvent, responseBuffer; the response headers;
                    \* ghost: how often write and end were called
    mwLast,         \* ghost: the last run of the middleware or of its res.write/res.end
                    \* override: its chunk, the events it emitted, the stores it
                    \* created, what it handed to the original write/end
    \* ---- callers of the registry: part_011:305-329 ----
    lookup,         \* ghost: the last getOrCreateBus / getBus call a caller made: its
                    \* session id, the store it returned (0 when absent), the registry
                    \* before it
    \* ---- dashboard: useEvents hook, part_010:23-102 ----
    dash,           \* the dashboard behind a connection: eventsWithSession (newest
                    \* first) and how many of the connection's messages it has handled
    \* ---- cancellable_task tool: tools/cancellable-task.ts:14-69 ----
    tool,           \* the tool's createTask handler: its position, the task status its
                    \* last getTask returned, the polls made, whether extra.taskStore
                    \* is the decorator or the plain store
    \* ---- application routes: app.otel.test.ts:193-396, session-manager.ts ----
    app             \* SessionManager.sessions (managed) and the ids it has generated;
                    \* the route the exchange in flight took and its session; the
                    \* exchanges completed

busVars == <<maxEvents, events, listeners, now, nextSeq, emitted, trace, lastEmit, lastQuery>>
hubVars == <<heap, buses, clients, subs, ready, outbox, hubLog,
             metadata, sigLog, sendLog, lastMsg, lastClose>>
regVars == <<metadata, sigLog, lastMsg, lastClose>>
tapVars == <<http, resOut, wire, nextOcc, lastSend>>
taskVars == <<tasks, calls>>
mwVars == <<exch, mwLast>>
appVars == <<lookup, dash, tool, app>>

vars == <<maxEvents, events, listeners, now, nextSeq, emitted, trace, lastEmit, lastQuery,
          heap, buses, clients, subs, ready, outbox, hubLog,
          metadata, sigLog, sendLog, lastMsg, lastClose,
          http, resOut, wire, nextOcc, lastSend,
          tasks, calls,
          exch, mwLast,
          lookup, dash, tool, app>>

-----------------------------------------------------------------------------
(* Bounds of the model *)

MaxCap == 2         \* capacities 1..MaxCap are tried
MaxEmits == 3       \* top-level emit calls per behaviour
MaxTime == 2        \* the clock runs 0..MaxTime
MaxHubEmits == 2    \* emits on registry buses per behaviour
MaxOcc == 2         \* inbound requests plus outbound messages per behaviour
MaxSignals == 3     \* session lifecycle signals per behaviour
MaxBroadcasts == 2  \* lifecycle signals plus events per behaviour of SpecLife
MaxMsgs == 1        \* inbound dashboard messages followed per behaviour
MaxCalls == 2       \* task-store decorator calls per behaviour
MaxWrites == 2      \* res.write calls per exchange
MaxStores == 2      \* buses the registry constructs per behaviour (SpecDir)
MaxPolls == 1       \* polls of the cancellable_task loop after the first
MaxExchanges == 2   \* HTTP exchanges the application serves per behaviour (SpecApp)
MaxEnds == 2        \* res.end calls per exchange

-----------------------------------------------------------------------------
(* Helpers *)

Min(a, b) == IF a < b THEN a ELSE b
Max(a, b) == IF a > b THEN a ELSE b

\* The last n elements of s (all of s when n >= Len(s)).
LastN(s, n) == SubSeq(s, Len(s) - Min(n, Len(s)) + 1, Len(s))

\* An optional argument: absent (JavaScript undefined) or a number.
Absent == [given |-> FALSE, val |-> 0]
Given(n) == [given |-> TRUE, val |-> n]

\* JavaScript undefined, as the value of a field an object does not have.
Undefined == "undefined"

-----------------------------------------------------------------------------
(* EventBus *)

\* The three local listeners of the model and what each does when invoked.
Listeners == {"quiet", "thrower", "reemitter"}

\* A listener callback registered with bus.on('event', listener):
\*   quiet     returns normally;
\*   thrower   throws;
\*   reemitter calls bus.emit({type: 'notification'}) when handed a request.
Behaviour(l) ==
    CASE l = "thrower" -> "throws"
      [] l = "reemitter" -> "reemits"
      [] OTHER -> "returns"

\* fullEvent = {...event, timestamp: Date.now()}
Stamp(input, seq, t) ==
    [seq |-> seq, type |-> input.type, ref |-> input.ref, timestamp |-> t]

\* Mutant of Evict: drops the newest event instead of the oldest.
EvictNewest(buf, cap) ==
    IF Len(buf) > cap THEN SubSeq(buf, 1, Len(buf) - 1) ELSE buf

\* if (this.events.length > this.maxEvents) this.events.shift()
Evict(buf, cap) ==
    IF Len(buf) > cap THEN Tail(buf) ELSE buf

\* this.events.push(fullEvent), then the eviction
Push(buf, ev, cap) == Evict(Append(buf, ev), cap)

\* The state a call chain works on: the buffer, the exchange, the ghosts, and
\* whether an exception is propagating.
BusState == [events |-> events, emitted |-> emitted, trace |-> trace,
             nextSeq |-> nextSeq, threw |-> FALSE,
             http |-> http, resOut |-> resOut, wire |-> wire]

RECURSIVE EmitOp(_, _), Dispatch(_, _, _, _)

\* super.emit('event', fullEvent): EventEmitter invokes the listeners of a copy of
\* the listener array, in registration order, synchronously. An exception thrown
\* by a listener propagates out of emit: the remaining listeners are not invoked.
Dispatch(st, ev, ls, i) ==
    IF i > Len(ls) THEN st
    ELSE LET l == ls[i]
             got == [st EXCEPT !.trace = Append(@, [l |-> l, ev |-> ev,
                                                    buf |-> st.events])]
         IN  CASE Behaviour(l) = "throws" -> [got EXCEPT !.threw = TRUE]
               [] Behaviour(l) = "reemits" /\ ev.type = "request" ->
                    LET inner == EmitOp(got, [type |-> "notification", ref |-> 0])
                    IN  IF inner.threw THEN inner ELSE Dispatch(inner, ev, ls, i + 1)
               [] OTHER -> Dispatch(got, ev, ls, i + 1)

\* EventBus.emit(event) for an event object: stamp, push, evict, notify.
EmitOp(st, input) ==
    LET fullEvent == Stamp(input, st.nextSeq, now)
        st1 == [st EXCEPT !.events = Push(@, fullEvent, maxEvents),
                          !.emitted = Append(@, fullEvent),
                          !.nextSeq = @ + 1]
    IN  Dispatch(st1, fullEvent, listeners, 1)

\* Mutant of SinceFilter: exclusive lower bound.
SinceFilterStrict(buf, since) ==
    IF since.given THEN SelectSeq(buf, LAMBDA e : e.timestamp > since.val) ELSE buf

\* if (options.since !== undefined) result = result.filter(e => e.timestamp >= since)
SinceFilter(buf, since) ==
    IF since.given THEN SelectSeq(buf, LAMBDA e : e.timestamp >= since.val) ELSE buf

\* Array.prototype.slice(start) with one argument: a negative start counts from
\* the end (clamped at 0); -0 is 0, so slice(-0) is the whole array.
JsSlice(arr, start) ==
    LET k == IF start < 0 THEN Max(Len(arr) + start, 0) ELSE Min(start, Len(arr))
    IN  SubSeq(arr, k + 1, Len(arr))

\* if (options.limit !== undefined && result.length > options.limit)
\*     result = result.slice(-options.limit)
LimitTail(result, limit) ==
    IF limit.given /\ Len(result) > limit.val THEN JsSlice(result, 0 - limit.val)
    ELSE result

\* EventBus.getEvents(options)
GetEvents(buf, since, limit) == LimitTail(SinceFilter(buf, since), limit)

\* Whether getEvents returns this.events itself: `let result = this.events` is
\* replaced by a new array only by filter (since given) or by slice (limit given
\* and exceeded).
ReturnsOwnArray(buf, since, limit) ==
    ~since.given /\ ~(limit.given /\ Len(buf) > limit.val)

\* What the holder of a getEvents result sees after push/shift changed the
\* buffer's array in place.
SeenByHolder(q, buf) == IF q.alias THEN [q EXCEPT !.held = buf] ELSE q

\* Mutant of Without: the listener registered last is removed.
WithoutLast(ls, l) == SubSeq(ls, 1, Len(ls) - 1)

\* removeListener('event', l): the array without l, order kept.
Without(ls, l) == SelectSeq(ls, LAMBDA x : x # l)

-----------------------------------------------------------------------------
(* Protocol taps: wrapped transport send and HTTP middleware *)

\* The JSON-RPC message shapes, by field presence.
Shapes == [method : BOOLEAN, id : BOOLEAN, result : BOOLEAN, error : BOOLEAN]

\* An outbound message: its shape and its identity.
Msg(shape, occ) == [shape |-> shape, occ |-> occ]

\* 'method' in msg && !('id' in msg)
IsNotification(msg) == msg.shape.method /\ ~msg.shape.id

\* Mutant of IsResponse: an error response is not recognised.
IsResponseResultOnly(msg) == msg.shape.id /\ msg.shape.result

\* 'id' in msg && ('result' in msg || 'error' in msg)
IsResponse(msg) == msg.shape.id /\ (msg.shape.result \/ msg.shape.error)

\* The event the taps emit for an outbound message, if any.
Classify(msg) ==
    IF IsNotification(msg) THEN <<[type |-> "notification", ref |-> msg.occ]>>
    ELSE IF IsResponse(msg) THEN <<[type |-> "response", ref |-> msg.occ]>>
    ELSE <<>>

\* The text lines of one server-sent event carrying msg, as the transport writes
\* them to the response: "event: message\ndata: <JSON>\n\n".
SseFrame(msg) ==
    << [prefix |-> "event: ", json |-> FALSE, value |-> "message"],
       [prefix |-> "data: ", json |-> TRUE, value |-> msg],
       [prefix |-> "", json |-> FALSE, value |-> ""],
       [prefix |-> "", json |-> FALSE, value |-> ""] >>

\* Mutant of ParseSSEChunk: only the first 'data: ' line of a chunk is read.
ParseSSEChunkFirst(chunk) ==
    LET data == SelectSeq(chunk, LAMBDA line : line.prefix = "data: " /\ line.json)
    IN  IF data = <<>> THEN <<>> ELSE <<data[1].value>>

\* Mutant of ParseSSEChunk: one try/catch around the whole loop, so that a
\* malformed line ends the parsing of the chunk.
ParseSSEChunkAbort(chunk) ==
    LET bad == {i \in 1..Len(chunk) : chunk[i].prefix = "data: " /\ ~chunk[i].json}
        stop == IF bad = {} THEN Len(chunk)
                ELSE (CHOOSE i \in bad : \A j \in bad : i <= j) - 1
        data == SelectSeq(SubSeq(chunk, 1, stop),
                          LAMBDA line : line.prefix = "data: " /\ line.json)
    IN  [i \in 1..Len(data) |-> data[i].value]

\* parseSSEChunk(chunk): the JSON values of the 'data: ' lines that parse.
ParseSSEChunk(chunk) ==
    LET data == SelectSeq(chunk, LAMBDA line : line.prefix = "data: " /\ line.json)
    IN  [i \in 1..Len(data) |-> data[i].value]

NoExchange == [open |-> FALSE, reqId |-> 0, sse |-> FALSE, responseBuffer |-> <<>>]
NoSend == [called |-> FALSE, msg |-> <<>>, opts |-> Absent, outcome |-> "none",
           tapped |-> <<>>]

RECURSIVE EmitAll(_, _)
\* for (const msg of messages) { if (isNotification(msg)) bus.emit(...) else if
\* (isResponse(msg)) bus.emit(...) }: an exception ends the loop.
EmitAll(st, msgs) ==
    IF msgs = <<>> \/ st.threw THEN st
    ELSE LET one == Classify(Head(msgs))
             st1 == IF one = <<>> THEN st ELSE EmitOp(st, one[1])
         IN  EmitAll(st1, Tail(msgs))

\* The middleware's res.write override: buffer the chunk, capture the SSE frames
\* of an event-stream response, then call the original write.
ResWrite(st, chunk) ==
    LET buffered == [st EXCEPT !.http.responseBuffer = @ \o chunk]
        captured == IF st.http.sse THEN EmitAll(buffered, ParseSSEChunk(chunk))
                    ELSE buffered
    IN  IF captured.threw THEN captured
        ELSE [captured EXCEPT !.resOut = Append(@, chunk)]

\* The transport's own send (originalSend): a message related to the request of
\* the open event-stream exchange is written to that response as one SSE frame;
\* any other message finds no stream and is not written.
OriginalSend(st, msg, opts) ==
    LET called == [st EXCEPT !.wire = Append(@, [msg |-> msg, opts |-> opts])]
    IN  IF st.http.open /\ opts = Given(st.http.reqId)
        THEN ResWrite(called, SseFrame(msg))
        ELSE called

\* The interceptor's part of the replaced transport.send: one bus.emit for a
\* notification, else one for a response, else none.
Intercept(st, msg) ==
    LET one == Classify(msg)
    IN  IF one = <<>> THEN st ELSE EmitOp(st, one[1])

\* transport.send as replaced by wrapTransportForObservability: emit the
\* observation event, then return originalSend(message, options).
WrappedSend(st, msg, opts) ==
    LET st1 == Intercept(st, msg)
    IN  IF st1.threw THEN st1 ELSE OriginalSend(st1, msg, opts)

-----------------------------------------------------------------------------
(* Task-store decorator (ObservableTaskStore) over a wrapped TaskStore *)

TaskIds == {"t1"}                       \* the ids the wrapped store hands out
Statuses == {"working", "completed", "failed"}
NoTask == "none"                        \* the wrapped store has no such task
Null == "null"                          \* JavaScript null

\* The originating request of a createTask, by the fields it carries: params or
\* not, and within params a name and arguments or not.
Requests ==
    {[params |-> FALSE, name |-> FALSE, arguments |-> FALSE]}
    \cup [params : {TRUE}, name : BOOLEAN, arguments : BOOLEAN]

\* The tool name and the arguments a request carries.
ToolOf(k) == "tool"
ArgsOf(k) == "args"

\* const toolName = params?.name ?? 'unknown'
ToolName(req, k) == IF req.params /\ req.name THEN ToolOf(k) ELSE "unknown"

\* const toolArgs = params?.arguments
ToolArgs(req, k) == IF req.params /\ req.arguments THEN ArgsOf(k) ELSE Undefined

\* The request id of the k-th decorator call.
RequestIdOf(k) == 10 + k

\* {type: 'task:created', taskId: task.taskId, toolName, toolArgs, requestId}
TaskCreatedInput(k, c) ==
    [type |-> "task:created",
     ref |-> [call |-> k, taskId |-> c.taskId, toolName |-> ToolName(c.req, k),
              toolArgs |-> ToolArgs(c.req, k), requestId |-> c.requestId]]

\* Mutant of PreviousStatus: a missing task is not turned into null.
PreviousStatusRaw(task) == task

\* const previousStatus = previousTask?.status ?? null
PreviousStatus(task) == IF task = NoTask THEN Null ELSE task

\* {type: 'task:status', taskId, previousStatus, newStatus: status}
TaskStatusInput(k, c) ==
    [type |-> "task:status",
     ref |-> [call |-> k, taskId |-> c.taskId, previousStatus |-> c.previous,
              newStatus |-> c.status]]

\* A decorator call: the method, its arguments, where the async method stands
\* (pc), the inner calls it has made with what they returned, and previousStatus.
NewCall(op, taskId, status, req, k) ==
    [op |-> op, taskId |-> taskId, status |-> status, req |-> req,
     requestId |-> RequestIdOf(k), pc |-> "start", inner |-> <<>>,
     previous |-> Null]

-----------------------------------------------------------------------------
(* EventRegistry and WebSocketHub *)

Sessions == {"s1", "s2"}        \* session ids
Unknown == "unknown"            \* the middleware's fallback bucket
StoreIds == Sessions \cup {Unknown}
Wildcard == "*"                 \* the reserved subscription token
Conns == {"c1", "c2"}           \* observer sockets

\* {type: 'event', sessionId, event}
EventMsg(sessionId, ev) == [type |-> "event", sessionId |-> sessionId, event |-> ev]

\* Mutant of SendTo: the socket's state is not looked at.
SendToAny(ob, c, msg) == [ob EXCEPT ![c] = Append(@, msg)]

\* Mutant of SendTo: the message is put in front of what was sent before.
SendToFront(ob, c, msg) ==
    IF ready[c] = "OPEN" THEN [ob EXCEPT ![c] = <<msg>> \o @] ELSE ob

\* WebSocketHub.send: if (ws.readyState === WebSocket.OPEN) ws.send(JSON.stringify(msg))
SendTo(ob, c, msg) ==
    IF ready[c] = "OPEN" THEN [ob EXCEPT ![c] = Append(@, msg)] ELSE ob

\* Mutant of Subscribed: the wildcard is not honoured.
SubscribedExact(set, sessionId) == sessionId \in set

\* client.subscriptions.has(sessionId) || client.subscriptions.has('*')
Subscribed(set, sessionId) == sessionId \in set \/ Wildcard \in set

RECURSIVE SendEach(_, _, _)
\* for (const client of ...) this.send(client.ws, msg), over the clients in `to`
SendEach(ob, to, msg) ==
    IF to = {} THEN ob
    ELSE LET c == CHOOSE x \in to : TRUE
         IN  SendEach(SendTo(ob, c, msg), to \ {c}, msg)

\* WebSocketHub.broadcastToSubscribers(sessionId, msg)
BroadcastToSubscribers(ob, sessionId, msg) ==
    SendEach(ob, {c \in clients : Subscribed(subs[c], sessionId)}, msg)

\* No call of WebSocketHub.send.
NoCalls == [c \in Conns |-> <<>>]

\* The calls of WebSocketHub.send a loop makes that sends msg to each client in `to`.
Addressed(to, msg) == [c \in Conns |-> IF c \in to THEN <<msg>> ELSE <<>>]

\* The session metadata values of the model; NoMeta: the map has no entry.
Metas == {"m1", "m2"}
NoMeta == "none"

\* {type: 'session_created', session: {sessionId, clientInfo, createdAt}}
SessionCreatedMsg(sessionId, meta) ==
    [type |-> "session_created", sessionId |-> sessionId, session |-> meta]

\* {type: 'session_closed', sessionId}
SessionClosedMsg(sessionId) == [type |-> "session_closed", sessionId |-> sessionId]

\* Mutant of WantsLifecycle: any subscription qualifies.
WantsLifecycleAny(set) == set # {}

\* client.subscriptions.has('*')
WantsLifecycle(set) == Wildcard \in set

\* The clients WebSocketHub.broadcast(msg) sends to.
BroadcastTargets == {c \in clients : WantsLifecycle(subs[c])}

\* WebSocketHub.broadcast(msg)
Broadcast(ob, msg) == SendEach(ob, BroadcastTargets, msg)

\* Mutant of Delete: the entry stays.
DeleteNothing(map, key, none) == map

\* Map.prototype.delete(key) on a map of the model
Delete(map, key, none) == [map EXCEPT ![key] = none]

\* Mutant of IsNew: every call counts as the first.
IsNewAlways(meta, sessionId) == TRUE

\* const isNew = !this.metadata.has(sessionId)
IsNew(meta, sessionId) == meta[sessionId] = NoMeta

\* {type: 'backfill', sessionId, events}
BackfillMsg(sessionId, evs) ==
    [type |-> "backfill", sessionId |-> sessionId, events |-> evs]

\* {type: 'sessions', sessions}
SessionsMsg(list) == [type |-> "sessions", sessions |-> list]

\* {type: 'error', message}
ErrorMsg(text) == [type |-> "error", message |-> text]

\* A forwarding listener that tags every event with the session of the first bus.
ForwardAsFirst(sessionId, ev) == [sessionId |-> "s1", ev |-> ev]

\* The forwarding listener getOrCreateBus registers on a new bus:
\* (event) => this.emit('event', sessionId, event), sessionId being the id the bus
\* was constructed for.
Forward(sessionId, ev) == [sessionId |-> sessionId, ev |-> ev]

\* EventRegistry.getBus(sessionId): Map.get, absent (0) for any key without an entry.
GetBus(sessionId) == IF sessionId \in Sessions THEN buses[sessionId] ELSE 0

\* EventRegistry.getSessionSummaries(): one summary per entry of the map, in
\* insertion order (the order the live buses were constructed in).
GetSessionSummaries ==
    LET live == SelectSeq([b \in 1..Len(heap) |-> b],
                          LAMBDA b : buses[heap[b].sessionId] = b)
    IN  [i \in 1..Len(live) |->
            [sessionId |-> heap[live[i]].sessionId,
             eventCount |-> Len(heap[live[i]].events),
             session |-> metadata[heap[live[i]].sessionId]]]

\* The data of an inbound ws 'message', by what JSON.parse makes of it: text that
\* does not parse, the JSON null, another non-object value (its properties read
\* as undefined), or an object with the fields it carries.
NonObject(kind) ==
    [kind |-> kind, type |-> Undefined, sessionId |-> Undefined,
     since |-> Absent, limit |-> Absent]

ObjectMsg(type, sessionId, since, limit) ==
    [kind |-> "object", type |-> type, sessionId |-> sessionId,
     since |-> since, limit |-> limit]

Inbound ==
    {NonObject(k) : k \in {"text", "null", "scalar"}}
    \cup {ObjectMsg(t, s, Absent, Absent) :
            t \in {"subscribe", "unsubscribe"}, s \in {"s1", Wildcard, Undefined}}
    \cup {ObjectMsg(t, Undefined, Absent, Absent) :
            t \in {"list_sessions", "bogus", Undefined}}
    \cup {ObjectMsg("backfill", s, since, limit) :
            s \in Sessions \cup {Undefined},
            since \in {Absent, Given(1)},
            limit \in {Absent, Given(0), Given(1)}}

\* Mutant of BackfillEvents: the limit is not passed on.
BackfillEventsNoLimit(sessionId, since, limit) ==
    IF GetBus(sessionId) # 0
    THEN GetEvents(heap[GetBus(sessionId)].events, since, Absent)
    ELSE <<>>

\* const bus = this.registry.getBus(msg.sessionId);
\* bus ? bus.getEvents({since: msg.since, limit: msg.limit}) : []
BackfillEvents(sessionId, since, limit) ==
    IF GetBus(sessionId) # 0
    THEN GetEvents(heap[GetBus(sessionId)].events, since, limit)
    ELSE <<>>

\* WebSocketHub.handleClientMessage(client, msg): the client's subscription set
\* afterwards and the messages passed to this.send(client.ws, ...). The switch has
\* no default case.
HandleClientMessage(set, msg) ==
    CASE msg.type = "subscribe" ->
           [subs |-> set \cup {msg.sessionId}, replies |-> <<>>]
      [] msg.type = "unsubscribe" ->
           [subs |-> set \ {msg.sessionId}, replies |-> <<>>]
      [] msg.type = "backfill" ->
           [subs |-> set,
            replies |-> <<BackfillMsg(msg.sessionId,
                              BackfillEvents(msg.sessionId, msg.since, msg.limit))>>]
      [] msg.type = "list_sessions" ->
           [subs |-> set, replies |-> <<SessionsMsg(GetSessionSummaries)>>]
      [] OTHER -> [subs |-> set, replies |-> <<>>]

\* The ws 'message' listener: try { msg = JSON.parse(data); handleClientMessage }
\* catch { send error 'Invalid JSON' }. JSON.parse throws on text that is not JSON;
\* reading msg.type of null throws a TypeError, caught by the same catch.
OnMessageData(set, data) ==
    IF data.kind \in {"text", "null"}
    THEN [subs |-> set, replies |-> <<ErrorMsg("Invalid JSON")>>]
    ELSE HandleClientMessage(set, data)

NoMsg == [n |-> 0, c |-> "", data |-> NonObject("text")]

-----------------------------------------------------------------------------
(* HTTP middleware (createObservabilityMiddleware) over the registry *)

\* req.body as the body parser left it: no JSON object, or an object with or
\* without `method`, `id` and `params`.
NoBody == [object |-> FALSE, method |-> Undefined, id |-> Undefined,
           params |-> Undefined]
Bodies ==
    {NoBody}
      \cup [object : {TRUE}, method : {"initialize"}, id : {"i1"}, params : {"p1"}]
      \cup [object : {TRUE}, method : {"tools/call"}, id : {Undefined, "i1"},
            params : {"p1"}]
      \cup {[object |-> TRUE, method |-> Undefined, id |-> "i1", params |-> Undefined]}

\* req.headers['mcp-session-id'] and the response header Mcp-Session-Id.
SessionHeaders == {Undefined, "s1"}
\* res.getHeader('Content-Type')
ContentTypes == {Undefined, "application/json", "text/event-stream"}

\* Mutant of IsInitializeRequest: the session header is not looked at.
IsInitializeRequestAnyHeader(body, sessionId) == body.method = "initialize"

\* body?.method === 'initialize' && !sessionId
IsInitializeRequest(body, sessionId) ==
    body.method = "initialize" /\ sessionId = Undefined

\* body && typeof body === 'object' && 'method' in body
HasMethod(body) == body.object /\ body.method # Undefined

\* {type: 'request', id: body.id, method: body.method, params: body.params}
RequestInput(body) ==
    [type |-> "request",
     ref |-> [id |-> body.id, method |-> body.method, params |-> body.params]]

\* The outbound JSON-RPC messages of the model: two notifications, a response.
N1 == Msg([method |-> TRUE, id |-> FALSE, result |-> FALSE, error |-> FALSE], 1)
N2 == Msg([method |-> TRUE, id |-> FALSE, result |-> FALSE, error |-> FALSE], 2)
R3 == Msg([method |-> FALSE, id |-> TRUE, result |-> TRUE, error |-> FALSE], 3)

\* Lines of response text. A line 'data: <JSON>' carries a message; a line
\* 'data: {oops' does not parse; a JSON text may be cut in two between writes.
DataLine(msg) == [prefix |-> "data: ", json |-> TRUE, value |-> msg]
BadDataLine == [prefix |-> "data: ", json |-> FALSE, value |-> "{oops"]
\* The first part of the line 'data: <JSON of R3>', cut inside the JSON text; what
\* follows it is the tail of that text.
DataHead == [prefix |-> "data: ", json |-> FALSE, value |-> "{head of R3"]
JsonText(msg) == [prefix |-> "", json |-> TRUE, value |-> msg]
JsonHead(msg) == [prefix |-> "", json |-> FALSE, value |-> [half |-> "head", of |-> msg]]
JsonTail(msg) == [prefix |-> "", json |-> FALSE, value |-> [half |-> "tail", of |-> msg]]

\* A falsy chunk: res.end() without a chunk, res.write('').
NoChunk == <<>>

\* The chunks a handler writes: whole lines, several frames in one chunk, a
\* malformed line before a well-formed one, the halves of a JSON body, the first
\* part of a data line.
Chunks ==
    { NoChunk, <<DataLine(N1)>>, <<DataLine(R3)>>, <<BadDataLine>>,
      <<JsonText(R3)>>, <<JsonHead(R3)>>, <<DataHead>>,
      <<DataLine(N1), DataLine(N2)>>, <<BadDataLine, DataLine(R3)>> }

\* The chunks a handler passes to res.end.
EndChunks ==
    { NoChunk, <<JsonText(R3)>>, <<JsonText(N1)>>, <<JsonTail(R3)>>,
      <<DataLine(R3)>> }

\* Whether a line is the given half of a JSON text.
IsHalf(line, half) == line.prefix = "" /\ ~line.json /\ line.value.half = half

\* JSON.parse(responseBuffer): the value when the whole buffer is one JSON text
\* (in one piece or as its two halves), an exception otherwise.
JsonParse(buffer) ==
    IF Len(buffer) = 1 /\ buffer[1].prefix = "" /\ buffer[1].json
    THEN [ok |-> TRUE, value |-> buffer[1].value]
    ELSE IF /\ Len(buffer) = 2
            /\ IsHalf(buffer[1], "head") /\ IsHalf(buffer[2], "tail")
            /\ buffer[1].value.of = buffer[2].value.of
    THEN [ok |-> TRUE, value |-> buffer[1].value.of]
    ELSE [ok |-> FALSE, value |-> Undefined]

\* The closure of one exchange and the response's headers.
\* deferredRequestEvent is <<>> when null, else the one deferred request.
NoExchangeYet ==
    [phase |-> "none", sessionId |-> Undefined, body |-> NoBody, deferred |-> <<>>,
     responseBuffer |-> <<>>, contentType |-> Undefined, resSessionId |-> Undefined,
     writes |-> 0, ends |-> 0]
NoHandler ==
    [handler |-> "none", chunk |-> NoChunk, emits |-> <<>>, created |-> {},
     original |-> <<>>]

\* sessionId || (res.getHeader('Mcp-Session-Id') as string) || 'unknown'
EffectiveSessionId(x) ==
    IF x.sessionId # Undefined THEN x.sessionId
    ELSE IF x.resSessionId # Undefined THEN x.resSessionId
    ELSE Unknown

\* String(contentType).includes('text/event-stream')
IsEventStream(x) == x.contentType = "text/event-stream"

\* The registry and what a handler run did to it so far.
MwState == [heap |-> heap, buses |-> buses, nextSeq |-> nextSeq,
            emits |-> <<>>, created |-> {}]

\* A getOrCreateBus that constructs a bus on every call.
BusForFresh(st, id) ==
    [st EXCEPT !.heap = Append(@, [sessionId |-> id, events |-> <<>>]),
               !.buses[id] = Len(st.heap) + 1,
               !.created = @ \cup {id}]

\* registry.getOrCreateBus(id) called from the middleware
BusFor(st, id) ==
    IF st.buses[id] # 0 THEN st
    ELSE [st EXCEPT !.heap = Append(@, [sessionId |-> id, events |-> <<>>]),
                    !.buses[id] = Len(st.heap) + 1,
                    !.created = @ \cup {id}]

\* bus.emit(input) on the bus of session id: stamp, push, evict, notify (the
\* forwarding listener re-publishes the event on the registry).
BusEmit(st, id, input) ==
    LET fullEvent == Stamp(input, st.nextSeq, now)
    IN  [st EXCEPT !.heap[st.buses[id]].events = Push(@, fullEvent, maxEvents),
                   !.nextSeq = @ + 1,
                   !.emits = Append(@, [sessionId |-> id, ev |-> fullEvent])]

RECURSIVE CaptureAll(_, _, _)
\* for (const msg of messages): one bus.emit for a notification, else one for a
\* response, else none.
CaptureAll(st, id, msgs) ==
    IF msgs = <<>> THEN st
    ELSE LET one == Classify(Head(msgs))
             st1 == IF one = <<>> THEN st ELSE BusEmit(st, id, one[1])
         IN  CaptureAll(st1, id, Tail(msgs))

\* The body of the res.write override up to the call of the original write.
WriteCapture(st, x, chunk) ==
    IF chunk # NoChunk /\ IsEventStream(x)
    THEN CaptureAll(BusFor(st, EffectiveSessionId(x)), EffectiveSessionId(x),
                    ParseSSEChunk(chunk))
    ELSE st

\* if (deferredRequestEvent) { bus.emit({type: 'request', ...}); ... }
FlushDeferred(st, x) ==
    IF x.deferred = <<>> THEN st
    ELSE BusEmit(st, EffectiveSessionId(x), RequestInput(x.deferred[1]))

\* Mutant of AfterFlush: the deferred request stays in the closure.
AfterFlushKeep(x) == x

\* deferredRequestEvent = null
AfterFlush(x) == [x EXCEPT !.deferred = <<>>]

\* Mutant of ParseBody: a JSON body is captured whatever its shape.
ParseBodyAnyShape(st, x, buffer) ==
    IF IsEventStream(x) \/ ~JsonParse(buffer).ok THEN st
    ELSE BusEmit(st, EffectiveSessionId(x),
                 [type |-> "response", ref |-> JsonParse(buffer).value.occ])

\* if (!contentType || !includes('text/event-stream')) try { JSON.parse(...);
\* if (isResponse(json)) bus.emit(...) } catch {}
ParseBody(st, x, buffer) ==
    IF IsEventStream(x) \/ ~JsonParse(buffer).ok THEN st
    ELSE CaptureAll(st, EffectiveSessionId(x),
                    SelectSeq(<<JsonParse(buffer).value>>, IsResponse))

\* The body of the res.end override up to the call of the original end.
EndCapture(st, x, buffer) ==
    ParseBody(FlushDeferred(BusFor(st, EffectiveSessionId(x)), x), x, buffer)

RECURSIVE BroadcastAll(_, _)
\* The hub's registry listener, for each event a handler run emitted.
BroadcastAll(ob, emits) ==
    IF emits = <<>> THEN ob
    ELSE BroadcastAll(BroadcastToSubscribers(ob, Head(emits).sessionId,
                          EventMsg(Head(emits).sessionId, Head(emits).ev)),
                      Tail(emits))

\* What the hub passed to send for connection c during a handler run.
SentTo(c, emits) ==
    LET mine == SelectSeq(emits, LAMBDA e : c \in clients /\ Subscribed(subs[c], e.sessionId))
    IN  [i \in 1..Len(mine) |-> EventMsg(mine[i].sessionId, mine[i].ev)]

-----------------------------------------------------------------------------
(* Initial state: freshly constructed bus, registry and hub; capacity 1..MaxCap *)

NoEmit == [called |-> FALSE, threw |-> FALSE, n |-> 0, ls |-> <<>>,
           before |-> 0, after |-> <<>>]
NoQuery == [called |-> FALSE, since |-> Absent, limit |-> Absent,
            buf |-> <<>>, result |-> <<>>, alias |-> FALSE, held |-> <<>>]
\* The dashboard after mounting: useState([]), no message handled.
NoDash == [list |-> <<>>, read |-> 0]

\* const existingTimestamps = new Set(prev.map(e => e.event.timestamp))
ExistingTimestamps(prev) == {prev[i].event.timestamp : i \in 1..Len(prev)}

\* Array.prototype.reverse
ReverseSeq(sq) == [i \in 1..Len(sq) |-> sq[Len(sq) + 1 - i]]

\* handleMessage of useEvents on eventsWithSession: an 'event' message is
\* prepended; of a 'backfill' message the events whose timestamp no entry has
\* yet are prepended, newest first; the other messages leave the list alone.
HandleMessage(prev, message) ==
    CASE message.type = "event" ->
           <<[event |-> message.event, sessionId |-> message.sessionId]>> \o prev
      [] message.type = "backfill" ->
           LET fresh == SelectSeq(message.events,
                            LAMBDA e : e.timestamp \notin ExistingTimestamps(prev))
               newEvents == [i \in 1..Len(fresh) |->
                               [event |-> fresh[i], sessionId |-> message.sessionId]]
           IN  ReverseSeq(newEvents) \o prev
      [] OTHER -> prev

\* cancellable_task before it is called.
NoTool == [pc |-> "idle", seen |-> NoTask, polls |-> 0, wrapped |-> FALSE]

\* Whether the decorator has been called with this operation.
Called(op) == \E k \in 1..Len(calls) : calls[k].op = op

\* The application after createApp: no session, no exchange in flight.
NoApp == [managed |-> {}, used |-> {}, route |-> "none", session |-> Undefined, n |-> 0]

\* The JSON-RPC error object of a 400 / 404 answer: {jsonrpc, error, id}.
E4 == Msg([method |-> FALSE, id |-> TRUE, result |-> FALSE, error |-> TRUE], 4)

\* The bodies of the requests the application is sent.
AppBodies ==
    {NoBody} \cup [object : {TRUE}, method : {"initialize", "tools/call"},
                   id : {"i1"}, params : {"p1"}]

NoClose == [called |-> FALSE, sessionId |-> "", found |-> FALSE, events |-> <<>>]
NoLookup == [fn |-> "none", sessionId |-> "", ret |-> 0,
             before |-> [s \in StoreIds |-> 0], size |-> 0,
             after |-> [s \in StoreIds |-> 0], sizeAfter |-> 0]

Init ==
    /\ maxEvents \in 1..MaxCap
    /\ events = <<>>
    /\ listeners = <<>>
    /\ now = 0
    /\ nextSeq = 1
    /\ emitted = <<>>
    /\ trace = <<>>
    /\ lastEmit = NoEmit
    /\ lastQuery = NoQuery
    /\ heap = <<>>
    /\ buses = [s \in StoreIds |-> 0]
    /\ clients = {}
    /\ subs = [c \in Conns |-> {}]
    /\ ready = [c \in Conns |-> "CLOSED"]
    /\ outbox = [c \in Conns |-> <<>>]
    /\ hubLog = <<>>
    /\ metadata = [s \in Sessions |-> NoMeta]
    /\ sigLog = <<>>
    /\ sendLog = NoCalls
    /\ lastMsg = NoMsg
    /\ lastClose = NoClose
    /\ http = NoExchange
    /\ resOut = <<>>
    /\ wire = <<>>
    /\ nextOcc = 1
    /\ lastSend = NoSend
    /\ tasks = [id \in TaskIds |-> NoTask]
    /\ calls = <<>>
    /\ exch = NoExchangeYet
    /\ mwLast = NoHandler
    /\ lookup = NoLookup
    /\ dash = NoDash
    /\ tool = NoTool
    /\ app = NoApp

-----------------------------------------------------------------------------
(* Actions of the bus *)

\* Date.now() advances.
Tick ==
    /\ now < MaxTime
    /\ now' = now + 1
    /\ UNCHANGED <<maxEvents, events, listeners, nextSeq, emitted, trace,
                   lastEmit, lastQuery>>
    /\ UNCHANGED hubVars
    /\ UNCHANGED taskVars
    /\ UNCHANGED mwVars
    /\ UNCHANGED appVars
    /\ UNCHANGED tapVars

\* bus.on('event', l)
On(l) ==
    /\ \A i \in 1..Len(listeners) : listeners[i] # l
    /\ listeners' = Append(listeners, l)
    /\ UNCHANGED <<maxEvents, events, now, nextSeq, emitted, trace,
                   lastEmit, lastQuery>>
    /\ UNCHANGED hubVars
    /\ UNCHANGED taskVars
    /\ UNCHANGED mwVars
    /\ UNCHANGED appVars
    /\ UNCHANGED tapVars

\* bus.off('event', l)
Off(l) ==
    /\ \E i \in 1..Len(listeners) : listeners[i] = l
    /\ listeners' = Without(listeners, l)
    /\ UNCHANGED <<maxEvents, events, now, nextSeq, emitted, trace,
                   lastEmit, lastQuery>>
    /\ UNCHANGED hubVars
    /\ UNCHANGED taskVars
    /\ UNCHANGED mwVars
    /\ UNCHANGED appVars
    /\ UNCHANGED tapVars

\* bus.emit({type: 'request', ...}) called by a producer (not from a listener).
Emit ==
    /\ lastEmit.n < MaxEmits
    /\ LET st == EmitOp(BusState, [type |-> "request", ref |-> lastEmit.n + 1])
       IN  /\ events' = st.events
           /\ emitted' = st.emitted
           /\ trace' = st.trace
           /\ nextSeq' = st.nextSeq
           /\ lastEmit' = [called |-> TRUE, threw |-> st.threw, n |-> lastEmit.n + 1,
                           ls |-> listeners, before |-> Len(trace),
                           after |-> st.events]
           /\ lastQuery' = SeenByHolder(lastQuery, st.events)
    /\ UNCHANGED <<maxEvents, listeners, now>>
    /\ UNCHANGED hubVars
    /\ UNCHANGED taskVars
    /\ UNCHANGED mwVars
    /\ UNCHANGED appVars
    /\ UNCHANGED tapVars

\* Mutant of Clear: the listeners are dropped with the events.
ClearAndDrop ==
    /\ events' = <<>>
    /\ emitted' = <<>>
    /\ listeners' = <<>>
    /\ lastQuery' = [lastQuery EXCEPT !.alias = FALSE]
    /\ UNCHANGED <<maxEvents, now, nextSeq, trace, lastEmit>>
    /\ UNCHANGED hubVars
    /\ UNCHANGED taskVars
    /\ UNCHANGED mwVars
    /\ UNCHANGED appVars
    /\ UNCHANGED tapVars

\* bus.clear(): this.events = [], a new array; the old one stays as it is with
\* whoever holds it.
Clear ==
    /\ events' = <<>>
    /\ emitted' = <<>>
    /\ lastQuery' = [lastQuery EXCEPT !.alias = FALSE]
    /\ UNCHANGED <<maxEvents, listeners, now, nextSeq, trace, lastEmit>>
    /\ UNCHANGED hubVars
    /\ UNCHANGED taskVars
    /\ UNCHANGED mwVars
    /\ UNCHANGED appVars
    /\ UNCHANGED tapVars

\* bus.getEvents({since, limit})
Query ==
    \E since \in {Absent} \cup {Given(t) : t \in 0..(MaxTime + 1)},
       limit \in {Absent} \cup {Given(n) : n \in 0..(Len(events) + 1)} :
        /\ lastQuery' = [called |-> TRUE, since |-> since, limit |-> limit,
                         buf |-> events, result |-> GetEvents(events, since, limit),
                         alias |-> ReturnsOwnArray(events, since, limit),
                         held |-> GetEvents(events, since, limit)]
        /\ UNCHANGED <<maxEvents, events, listeners, now, nextSeq, emitted,
                       trace, lastEmit>>
        /\ UNCHANGED hubVars
        /\ UNCHANGED taskVars
        /\ UNCHANGED mwVars
        /\ UNCHANGED appVars
        /\ UNCHANGED tapVars

-----------------------------------------------------------------------------
(* Actions of the registry and the hub *)

\* EventRegistry.getOrCreateBus(s): constructs a bus and registers the forwarding
\* listener when the map has none; returns the existing bus otherwise.
GetOrCreateBus(s) ==
    /\ buses[s] = 0
    /\ heap' = Append(heap, [sessionId |-> s, events |-> <<>>])
    /\ buses' = [buses EXCEPT ![s] = Len(heap) + 1]
    /\ UNCHANGED <<clients, subs, ready, outbox, hubLog>>
    /\ UNCHANGED busVars
    /\ UNCHANGED tapVars
    /\ UNCHANGED regVars
    /\ sendLog' = NoCalls
    /\ UNCHANGED taskVars
    /\ UNCHANGED mwVars
    /\ UNCHANGED appVars

\* bus.emit(input) on a bus the registry constructed (a tap holds the
\* reference): stamp, push, evict; the forwarding listener
\* re-publishes it on the registry tagged with the bus's session id, and the hub's
\* registry listener broadcasts it to the subscribed connections.
EmitOn(b) ==
    /\ b \in 1..Len(heap)
    /\ Len(hubLog) < MaxHubEmits
    /\ LET fullEvent == Stamp([type |-> "notification", ref |-> 0], nextSeq, now)
           sessionId == heap[b].sessionId
       IN  /\ heap' = [heap EXCEPT ![b].events = Push(@, fullEvent, maxEvents)]
           /\ nextSeq' = nextSeq + 1
           /\ hubLog' = Append(hubLog, Forward(sessionId, fullEvent))
           /\ outbox' = BroadcastToSubscribers(outbox, sessionId,
                                                EventMsg(sessionId, fullEvent))
           /\ sendLog' = Addressed({c \in clients : Subscribed(subs[c], sessionId)},
                                   EventMsg(sessionId, fullEvent))
    /\ UNCHANGED <<buses, clients, subs, ready>>
    /\ UNCHANGED <<maxEvents, events, listeners, now, emitted, trace, lastEmit, lastQuery>>
    /\ UNCHANGED tapVars
    /\ UNCHANGED regVars
    /\ UNCHANGED taskVars
    /\ UNCHANGED mwVars
    /\ UNCHANGED appVars

\* wss 'connection': a new ClientState with an empty subscription set.
Connect(c) ==
    /\ c \notin clients
    /\ clients' = clients \cup {c}
    /\ subs' = [subs EXCEPT ![c] = {}]
    /\ ready' = [ready EXCEPT ![c] = "OPEN"]
    /\ UNCHANGED <<heap, buses, outbox, hubLog>>
    /\ UNCHANGED busVars
    /\ UNCHANGED tapVars
    /\ UNCHANGED regVars
    /\ sendLog' = NoCalls
    /\ UNCHANGED taskVars
    /\ UNCHANGED mwVars
    /\ UNCHANGED appVars

\* The socket leaves the OPEN state (closing handshake started) while its
\* 'close' event has not been handled yet.
BeginClose(c) ==
    /\ c \in clients
    /\ ready[c] = "OPEN"
    /\ ready' = [ready EXCEPT ![c] = "CLOSING"]
    /\ UNCHANGED <<heap, buses, clients, subs, outbox, hubLog>>
    /\ UNCHANGED busVars
    /\ UNCHANGED tapVars
    /\ UNCHANGED regVars
    /\ sendLog' = NoCalls
    /\ UNCHANGED taskVars
    /\ UNCHANGED mwVars
    /\ UNCHANGED appVars

\* Mutant of Disconnect: the socket closes but its ClientState stays in the table.
DisconnectStays(c) ==
    /\ c \in clients
    /\ ready' = [ready EXCEPT ![c] = "CLOSED"]
    /\ sendLog' = NoCalls
    /\ UNCHANGED <<heap, buses, clients, subs, outbox, hubLog>>
    /\ UNCHANGED regVars
    /\ UNCHANGED busVars
    /\ UNCHANGED tapVars
    /\ UNCHANGED taskVars
    /\ UNCHANGED mwVars
    /\ UNCHANGED appVars

\* ws 'close' / 'error': this.clients.delete(ws); the ClientState is dropped with it.
Disconnect(c) ==
    /\ c \in clients
    /\ clients' = clients \ {c}
    /\ subs' = [subs EXCEPT ![c] = {}]
    /\ ready' = [ready EXCEPT ![c] = "CLOSED"]
    /\ UNCHANGED <<heap, buses, outbox, hubLog>>
    /\ UNCHANGED busVars
    /\ UNCHANGED tapVars
    /\ UNCHANGED regVars
    /\ sendLog' = NoCalls
    /\ UNCHANGED taskVars
    /\ UNCHANGED mwVars
    /\ UNCHANGED appVars

\* ws 'message' {type: 'subscribe', sessionId: s}
Subscribe(c, s) ==
    /\ c \in clients
    /\ s \notin subs[c]
    /\ subs' = [subs EXCEPT ![c] = @ \cup {s}]
    /\ UNCHANGED <<heap, buses, clients, ready, outbox, hubLog>>
    /\ UNCHANGED busVars
    /\ UNCHANGED tapVars
    /\ UNCHANGED regVars
    /\ sendLog' = NoCalls
    /\ UNCHANGED taskVars
    /\ UNCHANGED mwVars
    /\ UNCHANGED appVars

\* ws 'message' {type: 'unsubscribe', sessionId: s}
Unsubscribe(c, s) ==
    /\ c \in clients
    /\ s \in subs[c]
    /\ subs' = [subs EXCEPT ![c] = @ \ {s}]
    /\ UNCHANGED <<heap, buses, clients, ready, outbox, hubLog>>
    /\ UNCHANGED busVars
    /\ UNCHANGED tapVars
    /\ UNCHANGED regVars
    /\ sendLog' = NoCalls
    /\ UNCHANGED taskVars
    /\ UNCHANGED mwVars
    /\ UNCHANGED appVars

\* EventRegistry.setSessionMetadata(s, m): nothing without a bus; otherwise store
\* the metadata and, when there was none, fire 'session:created', which the hub
\* broadcasts as session_created.
SetSessionMetadata(s, m) ==
    /\ (buses[s] # 0 /\ IsNew(metadata, s)) => Len(sigLog) < MaxSignals
    /\ IF buses[s] = 0
       THEN /\ sendLog' = NoCalls
            /\ UNCHANGED <<metadata, sigLog, outbox>>
       ELSE /\ metadata' = [metadata EXCEPT ![s] = m]
            /\ IF IsNew(metadata, s)
               THEN /\ sigLog' = Append(sigLog, [type |-> "created", sessionId |-> s,
                                                 bus |-> buses[s], present |-> buses[s],
                                                 meta |-> m])
                    /\ outbox' = Broadcast(outbox, SessionCreatedMsg(s, m))
                    /\ sendLog' = Addressed(BroadcastTargets, SessionCreatedMsg(s, m))
               ELSE /\ sendLog' = NoCalls
                    /\ UNCHANGED <<sigLog, outbox>>
    /\ UNCHANGED <<heap, buses, clients, subs, ready, hubLog, lastMsg, lastClose>>
    /\ UNCHANGED busVars
    /\ UNCHANGED tapVars
    /\ UNCHANGED taskVars
    /\ UNCHANGED mwVars
    /\ UNCHANGED appVars

\* EventRegistry.closeSession(s): undefined without a bus; otherwise take the
\* bus's events, delete the bus and the metadata, fire 'session:closed' (the hub
\* broadcasts session_closed), return the events.
CloseSession(s) ==
    /\ buses[s] # 0 => Len(sigLog) < MaxSignals
    /\ IF buses[s] = 0
       THEN /\ lastClose' = [called |-> TRUE, sessionId |-> s, found |-> FALSE,
                             events |-> <<>>]
            /\ sendLog' = NoCalls
            /\ UNCHANGED <<buses, metadata, sigLog, outbox>>
       ELSE LET evs == GetEvents(heap[buses[s]].events, Absent, Absent)
                buses1 == Delete(buses, s, 0)
            IN  /\ buses' = buses1
                /\ metadata' = Delete(metadata, s, NoMeta)
                /\ sigLog' = Append(sigLog, [type |-> "closed", sessionId |-> s,
                                             bus |-> buses[s], present |-> buses1[s],
                                             meta |-> NoMeta])
                /\ outbox' = Broadcast(outbox, SessionClosedMsg(s))
                /\ sendLog' = Addressed(BroadcastTargets, SessionClosedMsg(s))
                /\ lastClose' = [called |-> TRUE, sessionId |-> s, found |-> TRUE,
                                 events |-> evs]
    /\ UNCHANGED <<heap, clients, subs, ready, hubLog, lastMsg>>
    /\ UNCHANGED busVars
    /\ UNCHANGED tapVars
    /\ UNCHANGED taskVars
    /\ UNCHANGED mwVars
    /\ UNCHANGED appVars

\* A caller (a tap factory, the middleware, the session manager) calls
\* registry.getOrCreateBus(s) and keeps what it returns.
GetOrCreateBusCall(s) ==
    /\ buses[s] = 0 => Len(heap) < MaxStores
    /\ LET st == BusFor(MwState, s)
       IN  /\ heap' = st.heap
           /\ buses' = st.buses
           /\ lookup' = [fn |-> "getOrCreateBus", sessionId |-> s, ret |-> st.buses[s],
                         before |-> buses, size |-> Len(heap),
                         after |-> st.buses, sizeAfter |-> Len(st.heap)]
    /\ sendLog' = NoCalls
    /\ UNCHANGED <<clients, subs, ready, outbox, hubLog>>
    /\ UNCHANGED busVars
    /\ UNCHANGED tapVars
    /\ UNCHANGED regVars
    /\ UNCHANGED taskVars
    /\ UNCHANGED mwVars
    /\ UNCHANGED <<dash, tool, app>>

\* A caller (the hub's backfill, the read API) calls registry.getBus(s).
GetBusCall(s) ==
    /\ lookup' = [fn |-> "getBus", sessionId |-> s, ret |-> GetBus(s),
                  before |-> buses, size |-> Len(heap),
                  after |-> buses, sizeAfter |-> Len(heap)]
    /\ sendLog' = NoCalls
    /\ UNCHANGED <<heap, buses, clients, subs, ready, outbox, hubLog>>
    /\ UNCHANGED busVars
    /\ UNCHANGED tapVars
    /\ UNCHANGED regVars
    /\ UNCHANGED taskVars
    /\ UNCHANGED mwVars
    /\ UNCHANGED <<dash, tool, app>>

\* The dashboard's socket delivers the next message the hub sent on connection c
\* to handleMessage.
DashReceive(c) ==
    /\ dash.read < Len(outbox[c])
    /\ dash' = [list |-> HandleMessage(dash.list, outbox[c][dash.read + 1]),
                read |-> dash.read + 1]
    /\ UNCHANGED <<lookup, tool, app>>
    /\ UNCHANGED hubVars
    /\ UNCHANGED busVars
    /\ UNCHANGED tapVars
    /\ UNCHANGED taskVars
    /\ UNCHANGED mwVars

\* ws 'message' with the given data on connection c.
OnMessage(c, data) ==
    /\ c \in clients
    /\ lastMsg.n < MaxMsgs
    /\ LET r == OnMessageData(subs[c], data)
       IN  /\ subs' = [subs EXCEPT ![c] = r.subs]
           /\ sendLog' = [NoCalls EXCEPT ![c] = r.replies]
           /\ outbox' = IF r.replies = <<>> THEN outbox
                        ELSE SendTo(outbox, c, r.replies[1])
    /\ lastMsg' = [n |-> lastMsg.n + 1, c |-> c, data |-> data]
    /\ UNCHANGED <<heap, buses, clients, ready, hubLog, metadata, sigLog, lastClose>>
    /\ UNCHANGED busVars
    /\ UNCHANGED tapVars
    /\ UNCHANGED taskVars
    /\ UNCHANGED mwVars
    /\ UNCHANGED appVars

-----------------------------------------------------------------------------
(* Actions of the task-store decorator. Each await of an async method ends a step:
   the inner call is made when the step runs and has settled when the next step of
   the same call runs; steps of different calls interleave. *)

\* store.createTask(taskParams, requestId, request): calls inner.createTask, which
\* creates a task in status 'working' and resolves with it, or rejects.
CreateTask(req) ==
    /\ Len(calls) < MaxCalls
    /\ \E id \in {x \in TaskIds : tasks[x] = NoTask} \cup {NoTask} :
        LET k == Len(calls) + 1
            c == NewCall("createTask", id, "working", req, k)
        IN  IF id = NoTask
            THEN /\ calls' = Append(calls, [c EXCEPT !.pc = "rejected",
                        !.inner = <<[fn |-> "createTask", ret |-> "rejected"]>>])
                 /\ UNCHANGED tasks
            ELSE /\ calls' = Append(calls, [c EXCEPT !.pc = "created",
                        !.inner = <<[fn |-> "createTask", ret |-> id]>>])
                 /\ tasks' = [tasks EXCEPT ![id] = "working"]
    /\ UNCHANGED busVars
    /\ UNCHANGED hubVars
    /\ UNCHANGED tapVars
    /\ UNCHANGED mwVars
    /\ UNCHANGED appVars

\* store.updateTaskStatus(taskId, status) or store.storeTaskResult(taskId, status,
\* result) up to the first await: calls inner.getTask(taskId).
Mutate(op, id, status) ==
    /\ Len(calls) < MaxCalls
    /\ LET k == Len(calls) + 1
           c == NewCall(op, id, status, [params |-> FALSE, name |-> FALSE,
                                         arguments |-> FALSE], k)
       IN  calls' = Append(calls, [c EXCEPT !.pc = "got",
                        !.inner = <<[fn |-> "getTask", ret |-> tasks[id]]>>,
                        !.previous = PreviousStatus(tasks[id])])
    /\ UNCHANGED tasks
    /\ UNCHANGED busVars
    /\ UNCHANGED hubVars
    /\ UNCHANGED tapVars
    /\ UNCHANGED mwVars
    /\ UNCHANGED appVars

\* The continuation after `await this.inner.getTask(...)`: calls the inner
\* mutation, which sets the status and resolves, or rejects.
Delegate(k) ==
    /\ k \in 1..Len(calls)
    /\ calls[k].pc = "got"
    /\ \E ok \in BOOLEAN :
        /\ calls' = [calls EXCEPT ![k].pc = IF ok THEN "mutated" ELSE "rejected",
                        ![k].inner = Append(@, [fn |-> calls[k].op,
                                ret |-> IF ok THEN "resolved" ELSE "rejected"])]
        /\ tasks' = IF ok THEN [tasks EXCEPT ![calls[k].taskId] = calls[k].status]
                    ELSE tasks
    /\ UNCHANGED busVars
    /\ UNCHANGED hubVars
    /\ UNCHANGED tapVars
    /\ UNCHANGED mwVars
    /\ UNCHANGED appVars

\* The continuation after the awaited inner createTask or inner mutation
\* resolved: this.eventBus.emit(...), then the method returns.
EmitTaskEvent(k) ==
    /\ k \in 1..Len(calls)
    /\ calls[k].pc \in {"created", "mutated"}
    /\ LET input == IF calls[k].pc = "created" THEN TaskCreatedInput(k, calls[k])
                    ELSE TaskStatusInput(k, calls[k])
           st == EmitOp(BusState, input)
       IN  /\ events' = st.events
           /\ emitted' = st.emitted
           /\ trace' = st.trace
           /\ nextSeq' = st.nextSeq
           /\ calls' = [calls EXCEPT ![k].pc = IF st.threw THEN "threw" ELSE "done"]
    /\ UNCHANGED <<maxEvents, listeners, now, lastEmit, lastQuery>>
    /\ UNCHANGED tasks
    /\ UNCHANGED hubVars
    /\ UNCHANGED tapVars
    /\ UNCHANGED mwVars
    /\ UNCHANGED appVars

-----------------------------------------------------------------------------
(* Actions of the HTTP middleware, for one exchange *)

\* What a handler run leaves in the registry and at the hub.
Registered(st) ==
    /\ heap' = st.heap
    /\ buses' = st.buses
    /\ nextSeq' = st.nextSeq
    /\ hubLog' = hubLog \o st.emits
    /\ outbox' = BroadcastAll(outbox, st.emits)
    /\ sendLog' = [c \in Conns |-> SentTo(c, st.emits)]
    /\ UNCHANGED <<clients, subs, ready>>
    /\ UNCHANGED regVars
    /\ UNCHANGED <<maxEvents, events, listeners, now, emitted, trace, lastEmit, lastQuery>>
    /\ UNCHANGED tapVars
    /\ UNCHANGED taskVars
    /\ UNCHANGED appVars

\* The middleware function runs for an inbound request: it emits the Request
\* event unless the request is a bootstrapping one, installs the res.write and
\* res.end overrides and calls next().
HttpArrive(sessionId, body) ==
    /\ exch.phase = "none"
    /\ LET id == IF sessionId # Undefined THEN sessionId ELSE Unknown
           st == IF HasMethod(body) /\ ~IsInitializeRequest(body, sessionId)
                 THEN BusEmit(BusFor(MwState, id), id, RequestInput(body))
                 ELSE MwState
       IN  /\ Registered(st)
           /\ exch' = [NoExchangeYet EXCEPT
                          !.phase = "open", !.sessionId = sessionId, !.body = body,
                          !.deferred = IF IsInitializeRequest(body, sessionId)
                                       THEN <<body>> ELSE <<>>]
           /\ mwLast' = [handler |-> "request", chunk |-> NoChunk, emits |-> st.emits,
                         created |-> st.created, original |-> <<>>]

\* The downstream handler sets the response headers, before it writes anything.
SetHeaders(contentType, resSessionId) ==
    /\ exch.phase = "open"
    /\ exch.writes = 0 /\ exch.ends = 0
    /\ exch.contentType = Undefined /\ exch.resSessionId = Undefined
    /\ contentType # Undefined \/ resSessionId # Undefined
    /\ exch' = [exch EXCEPT !.contentType = contentType, !.resSessionId = resSessionId]
    /\ mwLast' = NoHandler
    /\ Registered(MwState)

\* res.write(chunk) as overridden: buffer the chunk, capture the frames of an
\* event-stream response, then call the original write with the chunk.
ResWriteCall(chunk) ==
    /\ exch.phase = "open"
    /\ exch.ends = 0
    /\ exch.writes < MaxWrites
    /\ LET st == WriteCapture(MwState, exch, chunk)
       IN  /\ Registered(st)
           /\ exch' = [exch EXCEPT !.responseBuffer = @ \o chunk, !.writes = @ + 1]
           /\ mwLast' = [handler |-> "write", chunk |-> chunk, emits |-> st.emits,
                         created |-> st.created, original |-> <<chunk>>]

\* res.end(chunk) as overridden: buffer the chunk, resolve the session, flush the
\* deferred request, capture a JSON body, then call the original end with the
\* chunk. The first call completes the response; a handler may call end again.
ResEndCall(chunk) ==
    /\ exch.phase = "open"
    /\ exch.ends < MaxEnds
    /\ exch.ends > 0 => chunk = NoChunk
    /\ LET buffer == exch.responseBuffer \o chunk
           st == EndCapture(MwState, exch, buffer)
       IN  /\ Registered(st)
           /\ exch' = [AfterFlush(exch) EXCEPT !.responseBuffer = buffer, !.ends = @ + 1]
           /\ mwLast' = [handler |-> "end", chunk |-> chunk, emits |-> st.emits,
                         created |-> st.created, original |-> <<chunk>>]

-----------------------------------------------------------------------------
(* Actions of the cancellable_task tool and of tasks/cancel on its task *)

ToolFrame ==
    /\ UNCHANGED <<lookup, dash, app>>
    /\ UNCHANGED busVars
    /\ UNCHANGED hubVars
    /\ UNCHANGED tapVars
    /\ UNCHANGED mwVars

\* handler.createTask up to the loop: extra.taskStore.createTask makes the task,
\* in status 'working' (its TaskCreated event is followed in SpecTask).
ToolStart(wrapped) ==
    /\ tool.pc = "idle"
    /\ tasks["t1"] = NoTask
    /\ tasks' = [tasks EXCEPT !["t1"] = "working"]
    /\ tool' = [NoTool EXCEPT !.pc = "loop", !.wrapped = wrapped]
    /\ UNCHANGED calls
    /\ ToolFrame

\* One round of the loop: currentTask = await taskStore.getTask(taskId); return
\* when it is missing or cancelled, else sleep for checkInterval.
ToolPoll ==
    /\ tool.pc = "loop"
    /\ tool' = [tool EXCEPT !.seen = tasks["t1"],
                            !.polls = @ + 1,
                            !.pc = IF tasks["t1"] \in {NoTask, "cancelled"}
                                   THEN "returned" ELSE "sleep"]
    /\ UNCHANGED taskVars
    /\ ToolFrame

\* The timer fires and the loop condition is evaluated: durationMs has elapsed
\* or not.
ToolWake(elapsed) ==
    /\ tool.pc = "sleep"
    /\ ~elapsed => tool.polls <= MaxPolls
    /\ tool' = [tool EXCEPT !.pc = IF elapsed THEN "final" ELSE "loop"]
    /\ UNCHANGED taskVars
    /\ ToolFrame

\* finalTask = await taskStore.getTask(taskId) and the test on it.
ToolFinalCheck ==
    /\ tool.pc = "final"
    /\ tool' = [tool EXCEPT !.seen = tasks["t1"],
                            !.pc = IF tasks["t1"] \in {NoTask, "cancelled"}
                                   THEN "returned" ELSE "checked"]
    /\ UNCHANGED taskVars
    /\ ToolFrame

\* taskStore.storeTaskResult(taskId, 'completed', ...) on the decorator, after the
\* final check passed; the call proceeds with Delegate and EmitTaskEvent.
ToolStoreResult ==
    /\ tool.pc = "checked"
    /\ tool.wrapped
    /\ ~Called("storeTaskResult")
    /\ Mutate("storeTaskResult", "t1", "completed")

\* The same call on the plain store (observability off): the store takes the
\* result and sets the status, or rejects.
ToolStoreResultPlain ==
    /\ tool.pc = "checked"
    /\ ~tool.wrapped
    /\ \E ok \in BOOLEAN :
          tasks' = IF ok THEN [tasks EXCEPT !["t1"] = "completed"] ELSE tasks
    /\ tool' = [tool EXCEPT !.pc = "returned"]
    /\ UNCHANGED calls
    /\ ToolFrame

\* tasks/cancel for the task, accepted because the task is not in a terminal
\* status: the protocol layer calls updateTaskStatus(taskId, 'cancelled') on the
\* session's task store, here the decorator.
TasksCancel ==
    /\ tool.pc # "idle"
    /\ tool.wrapped
    /\ tasks["t1"] = "working"
    /\ ~Called("updateTaskStatus")
    /\ Mutate("updateTaskStatus", "t1", "cancelled")

\* The same on the plain store.
TasksCancelPlain ==
    /\ tool.pc # "idle"
    /\ ~tool.wrapped
    /\ tasks["t1"] = "working"
    /\ tasks' = [tasks EXCEPT !["t1"] = "cancelled"]
    /\ UNCHANGED <<calls, tool>>
    /\ ToolFrame

-----------------------------------------------------------------------------
(* Actions of the application's /mcp routes behind the middleware *)

\* The route handler the middleware's next() reaches, up to its answer or its
\* await of the transport. POST with an initialize body: createSession (a new id;
\* the task-store and transport factories call getOrCreateBus for it) and
\* setSessionMetadata, then the transport handles the request. Another POST, or
\* DELETE: 400 without a session header, 404 when getSession finds nothing,
\* else the session's transport handles it.
Route(verb) ==
    /\ exch.phase = "open"
    /\ app.route = "none"
    /\ verb = "DELETE" => exch.body = NoBody
    /\ IF verb = "POST" /\ exch.body.method = "initialize"
       THEN \E s \in Sessions \ app.used :
              LET st == BusFor(MwState, s)
              IN  /\ Len(sigLog) < MaxSignals
                  /\ app' = [app EXCEPT !.managed = @ \cup {s}, !.used = @ \cup {s},
                                         !.route = "transport", !.session = s]
                  /\ heap' = st.heap
                  /\ buses' = st.buses
                  /\ metadata' = [metadata EXCEPT ![s] = "m1"]
                  /\ sigLog' = Append(sigLog, [type |-> "created", sessionId |-> s,
                                                bus |-> st.buses[s], present |-> st.buses[s],
                                                meta |-> "m1"])
                  /\ outbox' = Broadcast(outbox, SessionCreatedMsg(s, "m1"))
                  /\ sendLog' = Addressed(BroadcastTargets, SessionCreatedMsg(s, "m1"))
       ELSE /\ app' = [app EXCEPT
                         !.route = IF exch.sessionId = Undefined
                                      \/ exch.sessionId \notin app.managed
                                   THEN "rejected"
                                   ELSE IF verb = "DELETE" THEN "delete" ELSE "transport",
                         !.session = exch.sessionId]
            /\ sendLog' = NoCalls
            /\ UNCHANGED <<heap, buses, metadata, sigLog, outbox>>
    /\ UNCHANGED <<clients, subs, ready, hubLog, lastMsg, lastClose>>
    /\ UNCHANGED <<lookup, dash, tool>>
    /\ UNCHANGED busVars
    /\ UNCHANGED tapVars
    /\ UNCHANGED taskVars
    /\ UNCHANGED mwVars

\* The DELETE route after the transport has answered:
\* sessionManager.deleteSession(sessionId); eventRegistry.closeSession follows.
RouteCleanup ==
    /\ app.route = "delete"
    /\ exch.ends > 0
    /\ app' = [app EXCEPT !.managed = @ \ {exch.sessionId}, !.route = "cleanup"]
    /\ UNCHANGED <<lookup, dash, tool>>
    /\ UNCHANGED hubVars
    /\ UNCHANGED busVars
    /\ UNCHANGED tapVars
    /\ UNCHANGED taskVars
    /\ UNCHANGED mwVars

\* The route handler has returned and the response is complete: the exchange and
\* its closure are gone.
ExchangeDone ==
    /\ exch.phase = "open"
    /\ exch.ends > 0
    /\ app.route \in {"rejected", "transport", "cleanup"}
    /\ app.route = "cleanup" => buses[exch.sessionId] = 0
    /\ app' = [app EXCEPT !.route = "none", !.session = Undefined, !.n = @ + 1]
    /\ exch' = NoExchangeYet
    /\ mwLast' = NoHandler
    /\ UNCHANGED <<lookup, dash, tool>>
    /\ UNCHANGED hubVars
    /\ UNCHANGED busVars
    /\ UNCHANGED tapVars
    /\ UNCHANGED taskVars

-----------------------------------------------------------------------------
(* Actions of the taps, for one session whose bus both taps emit into *)

\* POST /mcp with the session header and a JSON-RPC request body: the middleware
\* emits the Request event, wraps res.write/res.end and calls next(); the
\* transport answers with an event-stream response, which stays open.
HttpRequest ==
    /\ ~http.open
    /\ nextOcc <= MaxOcc
    /\ LET st == EmitOp(BusState, [type |-> "request", ref |-> nextOcc])
       IN  /\ events' = st.events
           /\ emitted' = st.emitted
           /\ trace' = st.trace
           /\ nextSeq' = st.nextSeq
           /\ http' = IF st.threw THEN http
                      ELSE [open |-> TRUE, reqId |-> nextOcc, sse |-> TRUE,
                            responseBuffer |-> <<>>]
    /\ nextOcc' = nextOcc + 1
    /\ resOut' = <<>>
    /\ wire' = <<>>
    /\ UNCHANGED <<maxEvents, listeners, now, lastEmit, lastQuery, lastSend>>
    /\ UNCHANGED hubVars
    /\ UNCHANGED taskVars
    /\ UNCHANGED mwVars
    /\ UNCHANGED appVars

\* The server sends a message through the session's transport: the wrapped send,
\* with no options or with relatedRequestId naming the request of the exchange.
ServerSend(shape, opts) ==
    /\ nextOcc <= MaxOcc
    /\ LET msg == Msg(shape, nextOcc)
           st == WrappedSend([BusState EXCEPT !.wire = <<>>, !.resOut = <<>>], msg, opts)
       IN  /\ events' = st.events
           /\ emitted' = st.emitted
           /\ trace' = st.trace
           /\ nextSeq' = st.nextSeq
           /\ http' = st.http
           /\ resOut' = st.resOut
           /\ wire' = st.wire
           /\ lastSend' = [called |-> TRUE, msg |-> msg, opts |-> opts,
                           outcome |-> IF st.threw THEN "rejected" ELSE "original",
                           tapped |-> SubSeq(Intercept(BusState, msg).emitted,
                                             Len(emitted) + 1,
                                             Len(Intercept(BusState, msg).emitted))]
    /\ nextOcc' = nextOcc + 1
    /\ UNCHANGED <<maxEvents, listeners, now, lastEmit, lastQuery>>
    /\ UNCHANGED hubVars
    /\ UNCHANGED taskVars
    /\ UNCHANGED mwVars
    /\ UNCHANGED appVars

\* The transport ends the event-stream response: res.end() without a chunk. The
\* middleware's override has no deferred request to flush and parses no JSON body
\* for an event-stream response.
HttpEnd ==
    /\ http.open
    /\ http' = NoExchange
    /\ resOut' = <<>>
    /\ wire' = <<>>
    /\ UNCHANGED <<nextOcc, lastSend>>
    /\ UNCHANGED busVars
    /\ UNCHANGED hubVars
    /\ UNCHANGED taskVars
    /\ UNCHANGED mwVars
    /\ UNCHANGED appVars

Next ==
    \/ Tick
    \/ \E l \in Listeners : On(l)
    \/ Emit
    \/ Clear

Spec == Init /\ [][Next]_vars

NextQuery ==
    \/ Tick
    \/ Emit
    \/ Clear
    \/ Query

SpecQuery == Init /\ [][NextQuery]_vars


NextHub ==
    \/ \E s \in Sessions : GetOrCreateBus(s)
    \/ \E b \in 1..Cardinality(Sessions) : EmitOn(b)
    \/ \E c \in Conns : Connect(c)
    \/ \E c \in Conns : BeginClose(c)
    \/ \E c \in Conns : Disconnect(c)
    \/ \E c \in Conns, s \in Sessions \cup {Wildcard} : Subscribe(c, s)
    \/ \E c \in Conns, s \in Sessions \cup {Wildcard} : Unsubscribe(c, s)

\* The registry builds its buses with capacity MaxCap (maxEventsPerSession).
InitHub == Init /\ maxEvents = MaxCap

SpecHub == InitHub /\ [][NextHub]_vars

\* One EventBus whose listeners come and go.
NextSub ==
    \/ \E l \in Listeners : On(l)
    \/ \E l \in Listeners : Off(l)
    \/ Emit

SpecSub == InitHub /\ [][NextSub]_vars

NextTap ==
    \/ \E l \in Listeners : On(l)
    \/ HttpRequest
    \/ \E shape \in Shapes, opts \in {Absent, Given(http.reqId)} :
           ServerSend(shape, opts)
    \/ HttpEnd

SpecTap == InitHub /\ [][NextTap]_vars

\* The registry alone: the store of session s1 comes, is emitted into (also after
\* the registry dropped it: a tap keeps its reference), gets metadata and is
\* closed; s2 is an id that never has a store.
NextReg ==
    \/ GetOrCreateBus("s1")
    \/ \E b \in 1..Len(heap) : EmitOn(b)
    \/ \E s \in Sessions, m \in Metas : SetSessionMetadata(s, m)
    \/ \E s \in Sessions : CloseSession(s)

SpecReg == InitHub /\ [][NextReg]_vars

\* The registry as its callers see it: stores of s1 and s2 are looked up with
\* getOrCreateBus and getBus, emitted into and closed.
NextDir ==
    \/ \E s \in Sessions : GetOrCreateBusCall(s)
    \/ \E s \in Sessions : GetBusCall(s)
    \/ \E b \in 1..Len(heap) : EmitOn(b)
    \/ \E s \in Sessions : CloseSession(s)

SpecDir == InitHub /\ [][NextDir]_vars

\* A dashboard on connection c1 watching session s1: it subscribes, requests a
\* backfill of the whole buffer and handles what the hub sends it, while the
\* session's store is emitted into and the clock runs.
BackfillRequests == {ObjectMsg("backfill", "s1", Absent, Absent)}

NextDash ==
    \/ Tick
    \/ GetOrCreateBus("s1")
    \/ EmitOn(1)
    \/ Connect("c1")
    \/ Subscribe("c1", "s1")
    \/ \E data \in BackfillRequests : OnMessage("c1", data)
    \/ DashReceive("c1")

SpecDash == InitHub /\ [][NextDash]_vars

\* One cancellable_task run and one tasks/cancel for its task, interleaved at
\* their awaits, over the decorator or over the plain store.
NextCancel ==
    \/ \E wrapped \in BOOLEAN : ToolStart(wrapped)
    \/ ToolPoll
    \/ \E elapsed \in BOOLEAN : ToolWake(elapsed)
    \/ ToolFinalCheck
    \/ ToolStoreResult
    \/ ToolStoreResultPlain
    \/ TasksCancel
    \/ TasksCancelPlain
    \/ \E k \in 1..MaxCalls : Delegate(k)
    \/ \E k \in 1..MaxCalls : EmitTaskEvent(k)

SpecCancel == InitHub /\ [][NextCancel]_vars

\* The application serving initialize, request and DELETE exchanges one after
\* the other: each passes the middleware, is routed, answered (a JSON error by the
\* route, an event-stream response or an empty 200 by the transport) and done.
NextApp ==
    \/ \E h \in SessionHeaders, body \in AppBodies :
           app.n < MaxExchanges /\ HttpArrive(h, body)
    \/ \E verb \in {"POST", "DELETE"} : Route(verb)
    \/ app.route = "rejected" /\ SetHeaders("application/json", Undefined)
    \/ /\ app.route = "rejected" /\ exch.contentType # Undefined /\ exch.ends = 0
       /\ ResEndCall(<<JsonText(E4)>>)
    \/ app.route = "transport" /\ SetHeaders("text/event-stream", app.session)
    \/ /\ app.route = "transport" /\ exch.contentType # Undefined /\ exch.writes = 0
       /\ ResWriteCall(<<DataLine(R3)>>)
    \/ /\ app.route = "transport" /\ exch.writes > 0 /\ exch.ends = 0
       /\ ResEndCall(NoChunk)
    \/ app.route = "delete" /\ exch.ends = 0 /\ ResEndCall(NoChunk)
    \/ RouteCleanup
    \/ app.route = "cleanup" /\ buses[exch.sessionId] # 0 /\ CloseSession(exch.sessionId)
    \/ ExchangeDone

SpecApp == InitHub /\ [][NextApp]_vars

\* Whether another broadcast fits the budget of SpecLife.
LifeBudget == Len(sigLog) + Len(hubLog) < MaxBroadcasts

\* Lifecycle signals and events of session s1 broadcast by the hub to connections
\* that come, subscribe, unsubscribe and go.
NextLife ==
    \/ GetOrCreateBus("s1")
    \/ \E b \in 1..Len(heap) : LifeBudget /\ EmitOn(b)
    \/ LifeBudget /\ SetSessionMetadata("s1", "m1")
    \/ LifeBudget /\ CloseSession("s1")
    \/ \E c \in Conns : Connect(c)
    \/ \E c \in Conns : BeginClose(c)
    \/ \E c \in Conns : Disconnect(c)
    \/ \E c \in Conns, s \in {"s1", Wildcard} : Subscribe(c, s)
    \/ \E c \in Conns, s \in {"s1", Wildcard} : Unsubscribe(c, s)

SpecLife == InitHub /\ [][NextLife]_vars

\* Inbound messages of one dashboard connection against a registry holding the
\* buffered events of session s1.
NextClient ==
    \/ Tick
    \/ GetOrCreateBus("s1")
    \/ \E b \in 1..Len(heap) : EmitOn(b)
    \/ Connect("c1")
    \/ BeginClose("c1")
    \/ Subscribe("c1", "s1")
    \/ \E data \in Inbound : OnMessage("c1", data)

SpecClient == InitHub /\ [][NextClient]_vars

\* Concurrent calls of the task-store decorator on one session's bus.
NextTask ==
    \/ \E req \in Requests : CreateTask(req)
    \/ \E id \in TaskIds, status \in {"working", "completed"} :
           Mutate("updateTaskStatus", id, status)
    \/ \E id \in TaskIds, status \in {"completed", "failed"} :
           Mutate("storeTaskResult", id, status)
    \/ \E k \in 1..MaxCalls : Delegate(k)
    \/ \E k \in 1..MaxCalls : EmitTaskEvent(k)

SpecTask == InitHub /\ [][NextTask]_vars

\* The middleware on one exchange: a request arrives, the handler sets headers,
\* writes chunks and ends the response.
NextMw ==
    \/ \E sessionId \in SessionHeaders, body \in Bodies : HttpArrive(sessionId, body)
    \/ \E contentType \in ContentTypes, resSessionId \in SessionHeaders :
           SetHeaders(contentType, resSessionId)
    \/ \E chunk \in Chunks : ResWriteCall(chunk)
    \/ \E chunk \in EndChunks : ResEndCall(chunk)

SpecMw == InitHub /\ [][NextMw]_vars

-----------------------------------------------------------------------------
(* Properties of the EventBus *)

\* Whether listener l was invoked with event ev during the last producer emit.
ReceivedInLastEmit(l, ev) ==
    \E i \in (lastEmit.before + 1)..Len(trace) : trace[i].l = l /\ trace[i].ev = ev

\* C1: for a store of capacity K >= 1 and N emits since construction or the last
\* clear, getEvents() without options returns exactly the last min(N, K) emitted
\* events in emission order, and the event count never exceeds K.
C1_RingBufferKeepsLastK ==
    /\ Len(events) <= maxEvents
    /\ GetEvents(events, Absent, Absent)
         = LastN(emitted, Min(Len(emitted), maxEvents))

\* C1 witness: more events were emitted than the capacity holds, so the oldest
\* were evicted.
C1_Witness ==
    /\ Len(emitted) > maxEvents
    /\ Len(events) = maxEvents
    /\ events[1].seq > emitted[1].seq

\* C3 (as claimed): listener invocations follow the append order, and no event of
\* a later emit reaches any listener before every listener has received the earlier
\* event - the sequence numbers along the invocation trace never decrease - also
\* when an emit is issued from inside a listener.
C3_DispatchInAppendOrder ==
    \A i, j \in 1..Len(trace) : i < j => trace[i].ev.seq <= trace[j].ev.seq

\* C6 (as claimed): when a listener throws while invoked for an event, the event
\* is the newest element of the buffer, the count is within capacity, and every
\* other listener registered on the store was invoked with that event.
C6_ThrowDoesNotBlockOthers ==
    lastEmit.threw =>
        LET last == trace[Len(trace)]
        IN  /\ Len(lastEmit.after) \in 1..maxEvents
            /\ lastEmit.after[Len(lastEmit.after)] = last.ev
            /\ \A i \in 1..Len(lastEmit.ls) :
                   lastEmit.ls[i] # last.l => ReceivedInLastEmit(lastEmit.ls[i], last.ev)

\* C7 (as claimed): emit returns normally to the producer whatever the listeners
\* do; a listener's exception never propagates out of emit.
C7_EmitNeverThrows == lastEmit.called => ~lastEmit.threw


\* C26 (as claimed): at the moment any listener is invoked for an event of a store
\* with capacity K >= 1 the append is complete: the event is the newest element
\* of the buffer, the count is within 1..K, and the buffered event is the event
\* handed to the listener, timestamp included.
C26_ListenerSeesCompleteAppend ==
    \A i \in 1..Len(trace) :
        /\ Len(trace[i].buf) \in 1..maxEvents
        /\ trace[i].buf[Len(trace[i].buf)] = trace[i].ev

\* The listeners in an array.
ListenerSet(ls) == {ls[i] : i \in 1..Len(ls)}
\* The invocations a step added to the trace.
NewCalls == SubSeq(trace', Len(trace) + 1, Len(trace'))
\* The listeners invoked with the event of sequence number q, in order.
InvokedFor(calls_, q) ==
    LET hit == SelectSeq(calls_, LAMBDA t : t.ev.seq = q)
    IN  [i \in 1..Len(hit) |-> hit[i].l]
\* A producer's emit happens in this step.
EmitStep == lastEmit'.n = lastEmit.n + 1

-----------------------------------------------------------------------------
(* Properties of getEvents *)

\* The set of positions of buf whose event has timestamp >= t.
MatchingPositions(buf, t) == {i \in 1..Len(buf) : buf[i].timestamp >= t}

\* C9 (as claimed): for every limit L in 0..n+1, n the number of events matching
\* `since`, getEvents({since, limit: L}) is the last min(L, n) matching events in
\* their original order.
C9_LimitReturnsTail ==
    (lastQuery.called /\ lastQuery.limit.given) =>
        LET matching == SinceFilter(lastQuery.buf, lastQuery.since)
            n == Len(matching)
            L == lastQuery.limit.val
        IN  L \in 0..(n + 1) => lastQuery.result = LastN(matching, Min(L, n))

\* C10: getEvents({since: T}) returns exactly the buffered events with timestamp
\* >= T, in buffer order; it is empty when T is later than every buffered
\* timestamp; without `since` nothing is filtered out.
C10_SinceIsInclusiveFilter ==
    (lastQuery.called /\ ~lastQuery.limit.given) =>
        LET buf == lastQuery.buf
            res == lastQuery.result
            T == lastQuery.since.val
        IN  IF ~lastQuery.since.given THEN res = buf
            ELSE /\ \A i \in 1..Len(res) :
                       /\ res[i].timestamp >= T
                       /\ \E j \in 1..Len(buf) : buf[j] = res[i]
                 /\ \A j \in 1..Len(buf) :
                       buf[j].timestamp >= T => \E i \in 1..Len(res) : res[i] = buf[j]
                 /\ \A i, k \in 1..Len(res) : i < k => res[i].seq < res[k].seq
                 /\ Len(res) = Cardinality(MatchingPositions(buf, T))
                 /\ (\A j \in 1..Len(buf) : buf[j].timestamp < T) => res = <<>>

\* C10 witness: a query with `since` = T and no limit on a buffer holding an event
\* stamped exactly T and an older one; the older one is filtered out.
C10_Witness ==
    /\ lastQuery.called /\ lastQuery.since.given /\ ~lastQuery.limit.given
    /\ \E j \in 1..Len(lastQuery.buf) : lastQuery.buf[j].timestamp = lastQuery.since.val
    /\ \E j \in 1..Len(lastQuery.buf) : lastQuery.buf[j].timestamp < lastQuery.since.val
    /\ lastQuery.result # <<>>
    /\ Len(lastQuery.result) < Len(lastQuery.buf)


\* C27 (as claimed): getEvents never changes the buffer, and what it returned is
\* a read-only snapshot: what the caller holds changes only by a new getEvents
\* call, never by a later emit, eviction or clear.
C27_GetEventsReturnsSnapshot ==
    [][ (lastQuery'.called /\ lastQuery'.held # lastQuery.held) =>
            /\ events' = events
            /\ lastQuery'.buf = events
            /\ lastQuery'.held = lastQuery'.result
      ]_vars

-----------------------------------------------------------------------------
(* Properties of the hub fan-out *)

\* How many times message m occurs in the sequence q.
Occurrences(q, m) == Cardinality({i \in 1..Len(q) : q[i] = m})

\* The position in hubLog of the emit that an `event` message reports.
EmitIndex(m) ==
    CHOOSE k \in 1..Len(hubLog) :
        hubLog[k] = [sessionId |-> m.sessionId, ev |-> m.event]

\* C2: for every event e emitted on session S and every connection that is open at
\* that moment, the connection is sent exactly one event{S, e} message if its
\* subscription set contains S or '*' (one, not two, when it contains both) and no
\* message otherwise; a '*' subscription covers sessions created after it was made.
C2_FanOutIffSubscribed ==
    [][ Len(hubLog') = Len(hubLog) + 1 =>
          LET e == hubLog'[Len(hubLog')]
          IN  \A c \in Conns :
                  (c \in clients /\ ready[c] = "OPEN") =>
                      outbox'[c] =
                          IF e.sessionId \in subs[c] \/ Wildcard \in subs[c]
                          THEN Append(outbox[c], EventMsg(e.sessionId, e.ev))
                          ELSE outbox[c]
      ]_vars

\* C2 witness: the last event went exactly once to an open connection subscribed
\* to both its session and '*', and not at all to an open connection subscribed
\* only to the other session.
C2_Witness ==
    /\ hubLog # <<>>
    /\ LET e == hubLog[Len(hubLog)]
           m == EventMsg(e.sessionId, e.ev)
       IN  \E c1, c2 \in clients :
               /\ c1 # c2
               /\ ready[c1] = "OPEN" /\ ready[c2] = "OPEN"
               /\ {e.sessionId, Wildcard} \subseteq subs[c1]
               /\ Occurrences(outbox[c1], m) = 1
               /\ subs[c2] # {} /\ ~Subscribed(subs[c2], e.sessionId)
               /\ Occurrences(outbox[c2], m) = 0

\* C4: for every connection and every session, the event messages sent to the
\* connection for that session are in the order of the emit calls on the session's
\* store.
C4_PerConnectionOrder ==
    \A c \in Conns : \A i, j \in 1..Len(outbox[c]) :
        ( /\ i < j
          /\ outbox[c][i].type = "event" /\ outbox[c][j].type = "event"
          /\ outbox[c][i].sessionId = outbox[c][j].sessionId )
        => EmitIndex(outbox[c][i]) < EmitIndex(outbox[c][j])

\* C4 witness: a connection was sent two events of one session while the other
\* connection came and went.
C4_Witness ==
    \E c \in clients, d \in Conns \ clients : \E i, j \in 1..Len(outbox[c]) :
        /\ i < j
        /\ outbox[c][i].sessionId = outbox[c][j].sessionId
        /\ outbox[d] # <<>>

-----------------------------------------------------------------------------
(* Properties of the hub's inbound messages *)

\* Whether the step handled one more inbound message.
Handled == lastMsg'.n = lastMsg.n + 1

\* C11: a backfill{sessionId, since, limit} request makes the hub pass exactly one
\* message to send, for the requesting connection: a `backfill` (never an `error`)
\* whose events are what getEvents({since, limit}) returns on the session's store
\* at that moment, or the empty list when the session has no store; the message
\* reaches the socket if it is open; the subscription sets do not change, and
\* the connection need not be subscribed.
C11_BackfillMatchesGetEvents ==
    [][ (Handled /\ lastMsg'.data.kind = "object" /\ lastMsg'.data.type = "backfill"
                 /\ lastMsg'.data.sessionId # Undefined) =>
          LET c == lastMsg'.c
              d == lastMsg'.data
              expected == IF buses[d.sessionId] # 0
                          THEN GetEvents(heap[buses[d.sessionId]].events, d.since, d.limit)
                          ELSE <<>>
              reply == [type |-> "backfill", sessionId |-> d.sessionId,
                        events |-> expected]
          IN  /\ sendLog' = [x \in Conns |-> IF x = c THEN <<reply>> ELSE <<>>]
              /\ outbox' = [outbox EXCEPT
                              ![c] = IF ready[c] = "OPEN" THEN Append(@, reply) ELSE @]
              /\ subs' = subs
      ]_vars

\* C11 witness: a connection with an empty subscription set asked for a backfill
\* and got part of the session's buffered events, cut by `since` or `limit`.
C11_Witness ==
    /\ lastMsg.n > 0 /\ lastMsg.data.type = "backfill"
    /\ subs[lastMsg.c] = {}
    /\ lastMsg.data.sessionId \in Sessions
    /\ buses[lastMsg.data.sessionId] # 0
    /\ Len(sendLog[lastMsg.c]) = 1
    /\ LET reply == sendLog[lastMsg.c][1]
       IN  /\ reply.type = "backfill"
           /\ reply.events # <<>>
           /\ Len(reply.events) < Len(heap[buses[lastMsg.data.sessionId]].events)
           /\ outbox[lastMsg.c] # <<>>
           /\ outbox[lastMsg.c][Len(outbox[lastMsg.c])] = reply

\* Inbound data that is not a well-formed subscribe, unsubscribe, backfill or
\* list_sessions message.
Malformed(d) ==
    \/ d.kind # "object"
    \/ d.type \notin {"subscribe", "unsubscribe", "backfill", "list_sessions"}
    \/ d.type \in {"subscribe", "unsubscribe", "backfill"} /\ d.sessionId = Undefined

\* C14 (as claimed): for every inbound message that is not well formed, the hub
\* sends one `error` reply to that connection, leaves its subscription set
\* unchanged and keeps the connection in the connection table.
C14_MalformedGetsError ==
    [][ (Handled /\ Malformed(lastMsg'.data)) =>
          LET c == lastMsg'.c
          IN  /\ Len(sendLog'[c]) = 1
              /\ sendLog'[c][1].type = "error"
              /\ subs'[c] = subs[c]
              /\ c \in clients'
      ]_vars

-----------------------------------------------------------------------------
(* Properties of the registry lifecycle *)

\* Whether the step fired one more lifecycle signal, and that signal.
Fired == Len(sigLog') = Len(sigLog) + 1
LastSignal == sigLog'[Len(sigLog')]

\* How many signals of the given type the store with heap index b has had.
SignalsOf(type, b) ==
    Cardinality({i \in 1..Len(sigLog) : sigLog[i].type = type /\ sigLog[i].bus = b})

\* C12: closeSession(S) on an existing store removes S from the directory, returns
\* all events buffered for S at that moment in emission order and fires exactly
\* one session-closed signal for S, during which getBus(S) is already absent; a
\* closeSession of an id without a store (closed before, or never created) returns
\* none, fires no signal and changes nothing.
C12_CloseSessionOnce ==
    [][ /\ \A s \in Sessions :
             (buses[s] # 0 /\ buses'[s] = 0) =>
                 /\ lastClose' = [called |-> TRUE, sessionId |-> s, found |-> TRUE,
                                  events |-> heap[buses[s]].events]
                 /\ \A i, j \in 1..Len(lastClose'.events) :
                        i < j => lastClose'.events[i].seq < lastClose'.events[j].seq
                 /\ Fired
                 /\ LastSignal.type = "closed" /\ LastSignal.sessionId = s
                 /\ LastSignal.present = 0
        /\ (Fired /\ LastSignal.type = "closed") =>
               /\ buses[LastSignal.sessionId] # 0
               /\ buses'[LastSignal.sessionId] = 0
               /\ sigLog' = Append(sigLog, LastSignal)
        /\ (lastClose' # lastClose /\ ~lastClose'.found) =>
               /\ buses[lastClose'.sessionId] = 0
               /\ lastClose'.events = <<>>
               /\ UNCHANGED <<heap, buses, metadata, sigLog, outbox, hubLog>>
        /\ \A b \in 1..Len(heap') : SignalsOf("closed", b)' <= 1
      ]_vars

\* C12 witness: a store holding events was closed with one signal fired while the
\* store was already absent, and a second closeSession of the same id found none.
C12_Witness ==
    /\ lastClose.called /\ ~lastClose.found
    /\ buses[lastClose.sessionId] = 0
    /\ \E i \in 1..Len(sigLog) :
           /\ sigLog[i].type = "closed"
           /\ sigLog[i].sessionId = lastClose.sessionId
           /\ sigLog[i].present = 0
           /\ Len(heap[sigLog[i].bus].events) > 1
           /\ SignalsOf("closed", sigLog[i].bus) = 1

\* C13: over the lifetime of a store for session S the session-created signal
\* fires exactly once, on the first setSessionMetadata(S, m) made while the store
\* exists; later calls replace the stored metadata without a signal; without a
\* store nothing is stored and no signal fires, so a store created afterwards has
\* no metadata.
C13_CreatedSignalOnce ==
    [][ /\ \A s \in Sessions :
             /\ (metadata'[s] # metadata[s] /\ metadata'[s] # NoMeta) =>
                    /\ buses[s] # 0 /\ buses'[s] = buses[s]
                    /\ IF metadata[s] = NoMeta
                       THEN sigLog' = Append(sigLog,
                                [type |-> "created", sessionId |-> s, bus |-> buses[s],
                                 present |-> buses[s], meta |-> metadata'[s]])
                       ELSE sigLog' = sigLog
             /\ buses'[s] = 0 => metadata'[s] = NoMeta
             /\ (buses[s] = 0 /\ buses'[s] # 0) => metadata'[s] = NoMeta
             /\ buses'[s] # 0 =>
                    SignalsOf("created", buses[s])' =
                        (IF metadata'[s] = NoMeta THEN 0 ELSE 1)
        /\ (Fired /\ LastSignal.type = "created") =>
               /\ buses[LastSignal.sessionId] # 0
               /\ metadata[LastSignal.sessionId] = NoMeta
               /\ metadata'[LastSignal.sessionId] = LastSignal.meta
        /\ \A b \in 1..Len(heap') : SignalsOf("created", b)' <= 1
      ]_vars

\* C13 witness: a session id is on its second store; each store had its one
\* created signal, and the metadata of the current store was replaced since.
C13_Witness ==
    \E s \in Sessions : \E i, j \in 1..Len(sigLog) :
        /\ i < j
        /\ sigLog[i].type = "created" /\ sigLog[i].sessionId = s
        /\ sigLog[j].type = "created" /\ sigLog[j].sessionId = s
        /\ sigLog[j].bus = buses[s] /\ sigLog[i].bus # buses[s]
        /\ metadata[s] \notin {NoMeta, sigLog[j].meta}

-----------------------------------------------------------------------------
(* Properties of the hub's connections and lifecycle broadcasts *)

\* The lifecycle message the hub makes of a signal.
LifecycleMsg(sig) ==
    IF sig.type = "created"
    THEN [type |-> "session_created", sessionId |-> sig.sessionId, session |-> sig.meta]
    ELSE [type |-> "session_closed", sessionId |-> sig.sessionId]

C15_ConnectionLifecycle ==
    [][ \A c \in Conns :
          /\ (c \notin clients /\ c \in clients') => subs'[c] = {}
          /\ (c \in clients /\ subs[c] = {}) =>
                 sendLog'[c] = <<>> /\ outbox'[c] = outbox[c]
          /\ (c \in clients /\ c \in clients' /\ subs'[c] # subs[c]) =>
                 /\ \E s \in Sessions \cup {"*"} :
                        subs'[c] = subs[c] \cup {s} \/ subs'[c] = subs[c] \ {s}
                 /\ \A d \in Conns \ {c} : subs'[d] = subs[d]
                 /\ UNCHANGED <<clients, outbox, heap, buses, hubLog, sigLog, metadata>>
          /\ (ready[c] # "CLOSED" /\ ready'[c] = "CLOSED") => c \notin clients'
          /\ c \notin clients => sendLog'[c] = <<>> /\ outbox'[c] = outbox[c]
      ]_vars

\* C15 witness: a connection that received messages while subscribed has left and
\* come back; its set is empty again and the broadcast just made, which reached
\* the other connection, passed it by.
C15_Witness ==
    \E c, d \in clients :
        /\ c # d
        /\ ready[c] = "OPEN" /\ subs[c] = {}
        /\ sendLog[c] = <<>>
        /\ sendLog[d] # <<>>
        /\ outbox[c] # <<>>
        /\ outbox[c][Len(outbox[c])] # sendLog[d][1]

\* C17: a message passed to send for a connection whose socket is not open is
\* discarded - every socket's delivered messages grow exactly by what is passed
\* to send for it while it is open, so nothing discarded is delivered later - the
\* other connections get their copies, and the emit that triggered the send
\* completes: the event is the newest of its store.
C17_NonOpenSendDropped ==
    [][ /\ \A c \in Conns :
             outbox'[c] = IF ready[c] = "OPEN" THEN outbox[c] \o sendLog'[c]
                          ELSE outbox[c]
        /\ Len(hubLog') = Len(hubLog) + 1 =>
             \E b \in 1..Len(heap') :
                 /\ heap'[b].events # <<>>
                 /\ heap'[b].events[Len(heap'[b].events)] = hubLog'[Len(hubLog')].ev
      ]_vars

\* C17 witness: an event was passed to send for a connection whose socket is
\* closing and for an open one; only the open one got it.
C17_Witness ==
    \E c, d \in clients :
        /\ ready[c] = "CLOSING" /\ ready[d] = "OPEN"
        /\ hubLog # <<>>
        /\ sendLog[c] = <<EventMsg("s1", hubLog[Len(hubLog)].ev)>>
        /\ sendLog[d] = sendLog[c]
        /\ outbox[d] # <<>> /\ outbox[d][Len(outbox[d])] = sendLog[d][1]
        /\ \A i \in 1..Len(outbox[c]) : outbox[c][i] # sendLog[c][1]

-----------------------------------------------------------------------------
(* Properties of the taps *)

\* The events appended to the session's bus that observe occurrence occ.
EventsOf(occ) == SelectSeq(emitted, LAMBDA e : e.ref = occ)

\* C5 (as claimed): with the wrapped transport send and the HTTP middleware both
\* installed for a session, every outbound response or notification yields at
\* most one event in the session's store, and every inbound request at most one
\* Request event.
C5_AtMostOneEventPerOccurrence ==
    \A occ \in 1..MaxOcc : Len(EventsOf(occ)) <= 1

\* C8 (as claimed): the wrapped send calls the original send exactly once with
\* the same message and options and returns its result, for every message shape
\* and also when emitting the observation event fails.
C8_WrappedSendIsPureObserver ==
    lastSend.called =>
        /\ wire = <<[msg |-> lastSend.msg, opts |-> lastSend.opts]>>
        /\ lastSend.outcome = "original"

\* C20: the interceptor emits, by field presence only, one Notification event
\* for a message with `method` and without `id`, one Response event for a message
\* with `id` and (`result` or `error`), and no event for any other shape; the
\* event is emitted before the real send is invoked: no event of the session
\* that observes the message is older, and when the emit throws the real send
\* has not been called.
C20_ClassifiesByFieldPresence ==
    lastSend.called =>
        LET s == lastSend.msg.shape
            expected == IF s.method /\ ~s.id THEN <<"notification">>
                        ELSE IF s.id /\ (s.result \/ s.error) THEN <<"response">>
                        ELSE <<>>
            tapped == lastSend.tapped
        IN  /\ [i \in 1..Len(tapped) |-> tapped[i].type] = expected
            /\ \A i \in 1..Len(tapped) :
                   /\ tapped[i].ref = lastSend.msg.occ
                   /\ \A j \in 1..Len(emitted) :
                          emitted[j].ref = lastSend.msg.occ =>
                              tapped[i].seq <= emitted[j].seq
            /\ lastSend.outcome = "rejected" => (wire = <<>> /\ tapped # <<>>)
            /\ tapped = <<>> => lastSend.outcome = "original"

\* C20 witness: an error response (id and error, no result) gave one Response
\* event before the real send wrote it to the open stream, and it was sent on.
C20_Witness ==
    /\ lastSend.called
    /\ lastSend.msg.shape = [method |-> FALSE, id |-> TRUE, result |-> FALSE,
                             error |-> TRUE]
    /\ Len(lastSend.tapped) = 1
    /\ lastSend.tapped[1].type = "response"
    /\ wire # <<>>
    /\ resOut # <<>>

-----------------------------------------------------------------------------
(* Properties of the HTTP middleware *)

\* The exchange's request is a bootstrapping one: initialize, no session header.
Bootstrap(x) == x.body.object /\ x.body.method = "initialize" /\ x.sessionId = Undefined
\* The exchange's request is captured on arrival: a method, not bootstrapping.
Ordinary(x) == x.body.object /\ x.body.method # Undefined /\ ~Bootstrap(x)
\* What a Request event carries of the request body.
Carried(body) == [id |-> body.id, method |-> body.method, params |-> body.params]
\* The Request events among the emits of a log.
RequestEmits(log) == SelectSeq(log, LAMBDA e : e.ev.type = "request")
\* The Notification and Response events among the emits of a log.
OutboundEmits(log) == SelectSeq(log, LAMBDA e : e.ev.type # "request")
\* The steps of the exchange.
Arrives == exch.phase = "none" /\ exch'.phase = "open"
Writes == exch'.writes = exch.writes + 1
Completes == exch.ends = 0 /\ exch'.ends = 1
EndsAgain == exch.ends > 0 /\ exch'.ends = exch.ends + 1
\* Whether event ev is in the buffer of the store the registry holds for id.
Stored(h, b, id, ev) ==
    b[id] # 0 /\ \E i \in 1..Len(h[b[id]].events) : h[b[id]].events[i] = ev

\* C21: for a bootstrapping request (initialize, no session header) no Request
\* event is emitted and no store is created when the request arrives; when the
\* response completes exactly one Request event for it is emitted, into the store
\* of the session id resolved then (response header, else 'unknown'); no write
\* and no further end emits another one; and when the response carries a session
\* id the exchange creates no 'unknown' store.
C21_DeferredRequestFlushedOnce ==
    [][ /\ (Arrives /\ Bootstrap(exch')) =>
               /\ mwLast'.emits = <<>>
               /\ heap' = heap /\ buses' = buses
        /\ (exch.phase = "open" /\ Bootstrap(exch)) =>
               /\ Writes => RequestEmits(mwLast'.emits) = <<>>
               /\ EndsAgain => RequestEmits(mwLast'.emits) = <<>>
               /\ Completes =>
                      LET id == IF exch.resSessionId # Undefined
                                THEN exch.resSessionId ELSE Unknown
                          reqs == RequestEmits(mwLast'.emits)
                      IN  /\ Len(reqs) = 1
                          /\ reqs[1].sessionId = id
                          /\ reqs[1].ev.ref = Carried(exch.body)
                          /\ Stored(heap', buses', id, reqs[1].ev)
                          /\ RequestEmits(hubLog) = <<>>
               /\ Len(RequestEmits(hubLog')) <= 1
               /\ exch'.resSessionId # Undefined => buses'[Unknown] = 0
      ]_vars

\* C21 witness: a bootstrapping exchange whose response carried session id s1 has
\* ended, and end was called a second time: the one Request event is in the store
\* of s1 and there is no 'unknown' store.
C21_Witness ==
    /\ Bootstrap(exch) /\ exch.ends = 2
    /\ exch.resSessionId = "s1"
    /\ Len(RequestEmits(hubLog)) = 1
    /\ RequestEmits(hubLog)[1].sessionId = "s1"
    /\ Stored(heap, buses, "s1", RequestEmits(hubLog)[1].ev)
    /\ buses[Unknown] = 0

\* C22: for an inbound request whose body is a JSON object with a `method` and
\* which is not a bootstrapping request, exactly one Request event carrying the
\* body's id, method and params is appended when the request arrives, before the
\* downstream handler runs, to the store of the request-header session id, or to
\* the 'unknown' store when the header is absent; no later step of the exchange
\* emits another Request event.
C22_RequestCapturedOnArrival ==
    [][ /\ (Arrives /\ Ordinary(exch')) =>
               LET id == IF exch'.sessionId # Undefined THEN exch'.sessionId
                         ELSE Unknown
               IN  /\ Len(mwLast'.emits) = 1
                   /\ mwLast'.emits[1].sessionId = id
                   /\ mwLast'.emits[1].ev.type = "request"
                   /\ mwLast'.emits[1].ev.ref = Carried(exch'.body)
                   /\ buses'[id] # 0
                   /\ heap'[buses'[id]].events = <<mwLast'.emits[1].ev>>
                   /\ exch'.writes = 0 /\ exch'.ends = 0
                   /\ exch'.contentType = Undefined /\ exch'.resSessionId = Undefined
        /\ (exch.phase = "open" /\ Ordinary(exch)) =>
               /\ Len(RequestEmits(hubLog)) = 1
               /\ RequestEmits(hubLog') = RequestEmits(hubLog)
      ]_vars

\* C22 witness: a tools/call request without a session header was answered and
\* the response completed; its one Request event is in the 'unknown' store, and
\* it is the first event of the exchange.
C22_Witness ==
    /\ Ordinary(exch) /\ exch.sessionId = Undefined /\ exch.ends = 1
    /\ exch.body.method = "tools/call" /\ exch.body.id = "i1"
    /\ Len(hubLog) >= 2
    /\ hubLog[1].ev.type = "request" /\ hubLog[1].sessionId = Unknown
    /\ hubLog[1].ev.ref = Carried(exch.body)
    /\ Len(RequestEmits(hubLog)) = 1

\* The messages in the well-formed `data:` lines of a chunk, in order.
FramesOf(chunk) ==
    LET data == SelectSeq(chunk, LAMBDA line : line.prefix = "data: " /\ line.json)
    IN  [i \in 1..Len(data) |-> data[i].value]
\* The event type field presence gives a message, "" when none.
TypeByFields(msg) ==
    IF msg.shape.method /\ ~msg.shape.id THEN "notification"
    ELSE IF msg.shape.id /\ (msg.shape.result \/ msg.shape.error) THEN "response"
    ELSE ""
\* The [type, ref] of the events a sequence of messages gives.
ExpectedOf(msgs) ==
    LET hit == SelectSeq(msgs, LAMBDA m : TypeByFields(m) # "")
    IN  [i \in 1..Len(hit) |-> [type |-> TypeByFields(hit[i]), ref |-> hit[i].occ]]
\* The [type, ref] of the events of a log.
Seen(log) == [i \in 1..Len(log) |-> [type |-> log[i].ev.type, ref |-> log[i].ev.ref]]

\* C23: for an event-stream response every write emits, during that write, one
\* event per well-formed `data:` frame of its chunk, classified by field presence
\* and in frame order, into the store of the resolved session, and completion
\* emits no Notification or Response event; so a body of two notification frames
\* and then a response frame, written in several chunks, gives exactly two
\* Notification events and then one Response event.
C23_SseFramesCapturedPerWrite ==
    [][ (exch.phase = "open" /\ exch.contentType = "text/event-stream") =>
            /\ Writes =>
                   /\ Seen(mwLast'.emits) = ExpectedOf(FramesOf(mwLast'.chunk))
                   /\ hubLog' = hubLog \o mwLast'.emits
                   /\ \A i \in 1..Len(mwLast'.emits) :
                          mwLast'.emits[i].sessionId =
                              (IF exch.sessionId # Undefined THEN exch.sessionId
                               ELSE IF exch.resSessionId # Undefined
                               THEN exch.resSessionId ELSE Unknown)
            /\ (Completes \/ EndsAgain) => OutboundEmits(mwLast'.emits) = <<>>
            /\ (FramesOf(exch'.responseBuffer) = <<N1, N2, R3>> /\ exch'.ends = 0) =>
                   Seen(OutboundEmits(hubLog')) =
                       << [type |-> "notification", ref |-> 1],
                          [type |-> "notification", ref |-> 2],
                          [type |-> "response", ref |-> 3] >>
      ]_vars

\* C23 witness: an event-stream response was written in two chunks carrying two
\* notification frames and then a response frame, and completed; the second
\* write carried the response frame and emitted the Response event.
C23_Witness ==
    /\ exch.contentType = "text/event-stream" /\ exch.writes = 2 /\ exch.ends = 1
    /\ FramesOf(exch.responseBuffer) = <<N1, N2, R3>>
    /\ Seen(OutboundEmits(hubLog)) =
           << [type |-> "notification", ref |-> 1],
              [type |-> "notification", ref |-> 2],
              [type |-> "response", ref |-> 3] >>

\* C24: for a response that is not event-stream no write emits an event; at
\* completion the concatenation of all written chunks and the final chunk is
\* parsed as JSON, and exactly one Response event is emitted when the parsed value
\* has `id` and (`result` or `error`), no Notification or Response event when it
\* has not or when the text is not JSON.
C24_JsonBodyCapturedAtCompletion ==
    [][ (exch.phase = "open" /\ exch.contentType # "text/event-stream") =>
            /\ Writes => (mwLast'.emits = <<>> /\ heap' = heap)
            /\ Completes =>
                   LET text == exch.responseBuffer \o mwLast'.chunk
                       json == JsonParse(text)
                   IN  /\ exch'.responseBuffer = text
                       /\ Seen(OutboundEmits(mwLast'.emits)) =
                              IF json.ok THEN ExpectedOf(
                                      SelectSeq(<<json.value>>,
                                          LAMBDA m : TypeByFields(m) = "response"))
                              ELSE <<>>
      ]_vars

\* C24 witness: a JSON response body was written as one chunk and completed with
\* the rest as the chunk of end; the completion emitted the one Response event.
C24_Witness ==
    /\ exch.contentType = "application/json" /\ exch.writes = 1 /\ exch.ends = 1
    /\ mwLast.handler = "end" /\ mwLast.chunk = <<JsonTail(R3)>>
    /\ exch.responseBuffer = <<JsonHead(R3), JsonTail(R3)>>
    /\ Seen(OutboundEmits(mwLast.emits)) = <<[type |-> "response", ref |-> 3]>>

\* Whether a chunk has a `data:` line that is not JSON.
HasBadLine(chunk) == \E i \in 1..Len(chunk) : chunk[i].prefix = "data: " /\ ~chunk[i].json

\* C25: a malformed `data:` line in an event-stream chunk, an empty body and a
\* buffered body that is not JSON never keep the overridden write or end from
\* handing the unchanged chunk to the original write or end; every well-formed
\* `data:` frame of the chunk with the malformed line, and of every later chunk,
\* is still captured; a body that does not parse gives no event.
C25_MalformedPayloadSkipped ==
    [][ exch.phase = "open" =>
            /\ (Writes \/ Completes \/ EndsAgain) =>
                   mwLast'.original = <<mwLast'.chunk>>
            /\ (Writes /\ exch.contentType = "text/event-stream"
                  /\ (HasBadLine(mwLast'.chunk) \/ HasBadLine(exch.responseBuffer))) =>
                   Seen(mwLast'.emits) = ExpectedOf(FramesOf(mwLast'.chunk))
            /\ (Completes /\ exch.contentType # "text/event-stream"
                  /\ ~JsonParse(exch'.responseBuffer).ok) =>
                   OutboundEmits(mwLast'.emits) = <<>>
      ]_vars

\* C25 witness: after a chunk that was one malformed `data:` line, a chunk with a
\* malformed line followed by a response frame was written to an event-stream
\* response; the Response event was captured and the chunk went on unchanged.
C25_Witness ==
    /\ exch.contentType = "text/event-stream" /\ exch.writes = 2
    /\ mwLast.handler = "write" /\ mwLast.chunk = <<BadDataLine, DataLine(R3)>>
    /\ exch.responseBuffer = <<BadDataLine, BadDataLine, DataLine(R3)>>
    /\ Seen(mwLast.emits) = <<[type |-> "response", ref |-> 3]>>
    /\ mwLast.original = <<mwLast.chunk>>

\* C28 (as claimed): an event input that lacks a field its variant requires is
\* rejected before any buffer mutation - no store ever holds a Request event
\* without an id, and none was delivered to the registry's listeners.
C28_MalformedEventRejected ==
    /\ \A b \in 1..Len(heap) : \A i \in 1..Len(heap[b].events) :
           heap[b].events[i].type = "request" =>
               heap[b].events[i].ref.id # Undefined
    /\ \A i \in 1..Len(hubLog) :
           hubLog[i].ev.type = "request" => hubLog[i].ev.ref.id # Undefined

-----------------------------------------------------------------------------
(* Properties of the task-store decorator *)

\* The events of the given type that the k-th decorator call emitted.
TaskEvents(type, k) ==
    SelectSeq(emitted, LAMBDA e : e.type = type /\ e.ref.call = k)

\* C18: for every updateTaskStatus or storeTaskResult call, the call's inner
\* calls are getTask and then the mutation, nothing between; no TaskStatus event
\* exists before the mutation resolved, none if it rejected, and exactly one once
\* the call went on after the mutation resolved: with the requested new status
\* and with previousStatus the status that getTask returned, null for no task.
C18_TaskStatusAfterMutation ==
    \A k \in 1..Len(calls) :
        calls[k].op \in {"updateTaskStatus", "storeTaskResult"} =>
            LET c == calls[k]
                evs == TaskEvents("task:status", k)
            IN  /\ TaskEvents("task:created", k) = <<>>
                /\ c.inner[1].fn = "getTask"
                /\ Len(c.inner) <= 2
                /\ Len(evs) = (IF c.pc \in {"done", "threw"} THEN 1 ELSE 0)
                /\ c.pc = "rejected" => c.inner[2] = [fn |-> c.op, ret |-> "rejected"]
                /\ Len(evs) = 1 =>
                       /\ c.inner[2] = [fn |-> c.op, ret |-> "resolved"]
                       /\ evs[1].ref.taskId = c.taskId
                       /\ evs[1].ref.newStatus = c.status
                       /\ evs[1].ref.previousStatus =
                              (IF c.inner[1].ret \in Statuses THEN c.inner[1].ret
                               ELSE "null")

\* C18 witness: an updateTaskStatus on a task that getTask did not find went
\* through and emitted its event with previousStatus null, and a storeTaskResult
\* whose mutation rejected emitted none.
C18_Witness ==
    \E k, j \in 1..Len(calls) :
        /\ calls[k].op = "updateTaskStatus" /\ calls[k].pc = "done"
        /\ Len(TaskEvents("task:status", k)) = 1
        /\ TaskEvents("task:status", k)[1].ref.previousStatus = "null"
        /\ calls[j].op = "storeTaskResult" /\ calls[j].pc = "rejected"
        /\ TaskEvents("task:status", j) = <<>>

\* C19 (as claimed): createTask emits exactly one TaskCreated event after the
\* wrapped createTask resolved, with the created task's id and the originating
\* request id; when the request has no params or no tool name the event has
\* toolName 'unknown' and absent toolArgs, and createTask resolves.
C19_TaskCreatedUnknownTool ==
    \A k \in 1..Len(calls) :
        calls[k].op = "createTask" =>
            LET c == calls[k]
                evs == TaskEvents("task:created", k)
            IN  /\ Len(evs) = (IF c.pc = "done" THEN 1 ELSE 0)
                /\ c.pc = "done" =>
                       /\ c.inner = <<[fn |-> "createTask", ret |-> c.taskId]>>
                       /\ evs[1].ref.taskId = c.taskId
                       /\ evs[1].ref.requestId = c.requestId
                       /\ (~c.req.params \/ ~c.req.name) =>
                              /\ evs[1].ref.toolName = "unknown"
                              /\ evs[1].ref.toolArgs = "undefined"


-----------------------------------------------------------------------------
(* The registry maps a session id to at most one store *)

\* The live stores of a registry map: the heap indexes some id is mapped to.
LiveStores(map) == {map[s] : s \in {x \in StoreIds : map[x] # 0}}

\* C31: in every reachable state each session id is mapped to at most one store
\* and distinct ids to distinct stores, each store being the one constructed for
\* its id; getOrCreateBus(id) returns the store the map already held for id (the
\* same store as the call before it, as long as the session was not closed) and
\* constructs a new one, mapped to id alone, only when there was none; getBus(id)
\* returns the store of the map or absent (0) and leaves map and stores as they
\* were.
C31_OneStorePerSession ==
    /\ \A a, b \in StoreIds : buses[a] # 0 /\ buses[a] = buses[b] => a = b
    /\ \A s \in StoreIds : buses[s] # 0 =>
           buses[s] \in 1..Len(heap) /\ heap[buses[s]].sessionId = s
    /\ lookup.fn = "getOrCreateBus" =>
           /\ lookup.ret # 0
           /\ lookup.after[lookup.sessionId] = lookup.ret
           /\ \A s \in StoreIds \ {lookup.sessionId} : lookup.after[s] = lookup.before[s]
           /\ IF lookup.before[lookup.sessionId] # 0
              THEN lookup.ret = lookup.before[lookup.sessionId]
                   /\ lookup.sizeAfter = lookup.size
              ELSE lookup.ret = lookup.size + 1
                   /\ lookup.sizeAfter = lookup.size + 1
                   /\ lookup.ret \notin LiveStores(lookup.before)
    /\ lookup.fn = "getBus" =>
           /\ lookup.ret = lookup.before[lookup.sessionId]
           /\ lookup.after = lookup.before
           /\ lookup.sizeAfter = lookup.size

\* A repeated getOrCreateBus(s1) returned the store the first call constructed,
\* while s2 has a store of its own.
C31_Witness ==
    /\ lookup.fn = "getOrCreateBus"
    /\ lookup.sessionId = "s1"
    /\ lookup.before["s1"] # 0
    /\ lookup.ret = lookup.before["s1"]
    /\ buses["s2"] # 0
    /\ buses["s1"] = lookup.ret

-----------------------------------------------------------------------------
(* Every emit on a registry store is signalled once, tagged with its session *)

\* The stores whose buffer this step appended to.
EmittedInto == {b \in 1..Len(heap) : heap'[b].events # heap[b].events}

\* C32: every emit on a store constructed by getOrCreateBus(S) causes, within
\* the emit, exactly one registry 'event' signal, which carries S and the
\* finalized event the store appended; it is never tagged with the session of
\* another store, and no signal is fired without an emit.
C32_EmitSignalledOnceWithSession ==
    [][/\ \A b \in EmittedInto :
            /\ EmittedInto = {b}
            /\ hubLog' = Append(hubLog,
                   [sessionId |-> heap[b].sessionId,
                    ev |-> heap'[b].events[Len(heap'[b].events)]])
       /\ EmittedInto = {} => hubLog' = hubLog]_vars

\* Two stores, of s1 and of s2, were each emitted into.
C32_Witness ==
    /\ Len(hubLog) = 2
    /\ hubLog[1].sessionId # hubLog[2].sessionId
    /\ buses["s1"] # 0 /\ heap[buses["s1"]].events # <<>>
    /\ buses["s2"] # 0 /\ heap[buses["s2"]].events # <<>>

-----------------------------------------------------------------------------
(* The dashboard's event list against what the server sent *)

\* The events of the messages the dashboard has handled so far.
EventsIn(message) ==
    CASE message.type = "event" -> {message.event}
      [] message.type = "backfill" ->
           {message.events[i] : i \in 1..Len(message.events)}
      [] OTHER -> {}

SentToDash(c) == UNION {EventsIn(outbox[c][i]) : i \in 1..dash.read}

\* C33: after any sequence of live 'event' and 'backfill' messages every distinct
\* event the server sent appears exactly once in the dashboard's list. Violated:
\* the merge compares timestamps, so a backfilled event is dropped when the list
\* holds another event stamped in the same millisecond.
C33_BackfillMergeIsUnion ==
    \A e \in SentToDash("c1") :
        Cardinality({i \in 1..Len(dash.list) : dash.list[i].event = e}) = 1

-----------------------------------------------------------------------------
(* cancellable_task against tasks/cancel *)

-----------------------------------------------------------------------------
(* Order of the Request and the Response event of one exchange *)

\* The positions in the registry's log of the Request event carrying a JSON-RPC
\* id and of the Response events; the response message of the exchange (R3)
\* answers the exchange's request and carries its id.
RequestPositions ==
    {i \in 1..Len(hubLog) : hubLog[i].ev.type = "request" /\ hubLog[i].ev.ref.id # Undefined}
ResponsePositions ==
    {i \in 1..Len(hubLog) : hubLog[i].ev.type = "response" /\ hubLog[i].ev.ref = R3.occ}

\* C35: when the middleware captures both the Request event and the Response
\* event of an exchange, the Request event is emitted, and so appended to the
\* session's buffer, before the Response event. Violated for a bootstrapping
\* exchange answered as an event stream: the response frame is captured by
\* res.write, the deferred request only by res.end.
C35_RequestBeforeResponse ==
    \A i \in RequestPositions, j \in ResponsePositions :
        hubLog[i].sessionId = hubLog[j].sessionId => i < j

-----------------------------------------------------------------------------
(* A closed session is silent *)

\* The registry 'event' signals this step fired, and the messages it handed to
\* connection c.
NewSignals == SubSeq(hubLog', Len(hubLog) + 1, Len(hubLog'))
NewMessages(c) == SubSeq(outbox'[c], Len(outbox[c]) + 1, Len(outbox'[c]))

\* C36: while the registry holds no store for S (after closeSession(S), until a
\* new store is created), no registry 'event' signal tagged S is fired and no
\* connection is sent an 'event' message for S, also when a tap still emits
\* into the store that was closed. Violated: closeSession leaves the forwarding
\* listener on the dropped store.
C36_ClosedSessionSilent ==
    [][\A s \in Sessions :
          buses[s] = 0 /\ buses'[s] = 0 =>
            /\ \A i \in 1..Len(NewSignals) : NewSignals[i].sessionId # s
            /\ \A c \in Conns : \A i \in 1..Len(NewMessages(c)) :
                  ~(NewMessages(c)[i].type = "event" /\ NewMessages(c)[i].sessionId = s)]_vars

-----------------------------------------------------------------------------
(* The TaskStatus events of a task as a chain *)

\* The TaskStatus events of task id appended so far, in buffer order.
StatusChain(id) ==
    SelectSeq(emitted, LAMBDA e : e.type = "task:status" /\ e.ref.taskId = id)

\* Every decorator call made so far has returned or thrown.
AllReturned ==
    \A k \in 1..Len(calls) : calls[k].pc \in {"done", "threw", "rejected"}

\* C37: the TaskStatus events of a task form a chain, each previousStatus being
\* the newStatus of the event before it, and once all calls have returned the
\* last newStatus is the task's status in the wrapped store, for every
\* interleaving of concurrent updateTaskStatus and storeTaskResult calls.
\* Violated: two calls read the status before either has mutated it.
C37_TaskStatusChain ==
    \A id \in TaskIds :
        LET chain == StatusChain(id)
        IN  /\ \A i \in 2..Len(chain) :
                  chain[i].ref.previousStatus = chain[i - 1].ref.newStatus
            /\ AllReturned /\ chain # <<>> =>
                  chain[Len(chain)].ref.newStatus = tasks[id]

-----------------------------------------------------------------------------
(* The registry against the session manager *)

\* C38: after any sequence of initialize, request and DELETE exchanges (none in
\* flight), every session id the registry holds a store for, other than
\* 'unknown', is a session the session manager holds. Violated: the middleware
\* creates the store of whatever id the request's header names before the route
\* rejects the request.
C38_StoresOnlyForManagedSessions ==
    exch.phase = "none" /\ app.route = "none" =>
        \A s \in Sessions : buses[s] # 0 => s \in app.managed

-----------------------------------------------------------------------------
(* Stores the middleware creates *)

\* C39: the middleware creates a store only when it appends an event to it: every
\* store the last run of the middleware or of its res.write / res.end override
\* created received an event in that run, so an exchange without events leaves
\* the registry's set of stores as it was. Violated: the res.end override calls
\* getOrCreateBus before it knows whether there is anything to emit.
C39_StoreCreatedOnlyWithEvent ==
    \A id \in mwLast.created :
        \E i \in 1..Len(mwLast.emits) : mwLast.emits[i].sessionId = id

-----------------------------------------------------------------------------
(* Event-stream capture against the way the body is cut into chunks *)

RECURSIVE Joined(_)
\* The lines of the concatenated body: the two parts of a data line that was cut
\* between chunks are one line again.
Joined(buffer) ==
    IF Len(buffer) < 2 THEN buffer
    ELSE IF /\ buffer[1].prefix = "data: " /\ ~buffer[1].json
            /\ buffer[1].value = DataHead.value
            /\ IsHalf(buffer[2], "tail")
         THEN <<DataLine(buffer[2].value.of)>> \o Joined(SubSeq(buffer, 3, Len(buffer)))
         ELSE <<buffer[1]>> \o Joined(Tail(buffer))

\* The body consists of complete, well-formed data frames.
WholeFrames(body) ==
    body # <<>> /\ \A i \in 1..Len(body) : body[i].prefix = "data: " /\ body[i].json

\* C40: the Notification and Response events captured from an event-stream
\* response are those of the frames of the concatenated body, in order, however
\* the body was cut into write calls and the final end call. Violated: a frame
\* passed as the chunk of end, or cut inside its data line, is not captured.
C40_CaptureIndependentOfChunking ==
    (IsEventStream(exch) /\ exch.ends > 0 /\ WholeFrames(Joined(exch.responseBuffer))) =>
        Seen(OutboundEmits(hubLog)) = ExpectedOf(FramesOf(Joined(exch.responseBuffer)))

=============================================================================
